---- MODULE Spec2Model ----
(***************************************************************************)
(* Model of the question-answering core of the mortgage assistant:         *)
(*   backend/mortgage_kb_service.py  MortgageKnowledgeBase  ("kb")         *)
(*   backend/rag_service.py          RAGDocumentService     ("rag")        *)
(* Retrieval, routing, the web-search / generation fallback chain, the     *)
(* chunker and indexing, and the file cache of synthesized speech.         *)
(***************************************************************************)
EXTENDS Integers, Sequences, FiniteSets, TLC

VARIABLES
    GEMINI_API_KEY,      \* TRUE iff the environment sets GEMINI_API_KEY
    SERPAPI_API_KEY,     \* TRUE iff the environment sets SERPAPI_API_KEY
    SERPAPI_AVAILABLE,   \* TRUE iff the serpapi package imported (GoogleSearch is not None)
    user_collection,     \* kb: User_Documents_Collection, a set of stored chunks
    policy_collection,   \* kb: Mortgages_Collection
    collection,          \* rag: documents_collection
    req,                 \* the arguments and collaborator outcomes of the last query
    context_docs,        \* the retrieval bundle of the last query (sequence of hits)
    route,               \* the branch the last query took: "none", "local", "web", "error"
    calls,               \* the collaborator calls of the last query, in call order
    result,              \* the dict the last query returned
    raised,              \* TRUE iff the last query let an exception reach its caller
    ELEVENLABS_API_KEY,  \* TRUE iff the environment sets ELEVENLABS_API_KEY
    ELEVENLABS_AVAILABLE,\* TRUE iff the elevenlabs package imported
    audio_cache,         \* the files of audio_cache/: file name -> the bytes it holds
    producer_calls,      \* <<text, voice_id>> -> number of text_to_speech.convert calls
    tts,                 \* per caller: where it is in text_to_speech, and its locals
    tts_calls,           \* number of text_to_speech calls started
    tts_failed,          \* TRUE iff a convert call, an open or a write has raised
    split,               \* the frame of one chunker call: arguments, locals, position
    last_index,          \* the last indexing call: its arguments, outcome and predecessor
    _mortgage_kb,        \* the global knowledge-base instance: NoInstance, or the number
                         \* of the MortgageKnowledgeBase object it refers to
    rag_service,         \* TRUE iff routers.py got a RAG service at import (not None)
    app_initialized,     \* app.py: TRUE iff its globals collection and elevenlabs are set
    handler,             \* the request a route handler is serving, and where it stands
    prompt_frame,        \* one call that builds a prompt context: arguments, context, position
    embed_frame,         \* one call of an embedding function: its input and its vectors
    _rag_service,        \* the global RAG service instance of rag_service.py, as _mortgage_kb
    getters,             \* per caller: where it is in get_mortgage_kb / get_rag_service
    constructed,         \* per accessor: how many service objects have been constructed
    policy_loads,        \* how many times the policy folder has been indexed
    indexer,             \* an indexing call in progress: its operation, position and the
                         \* chunks it has still to upsert
    policy_deleted,      \* TRUE while Mortgages_Collection is deleted and not yet re-created
    extraction,          \* the last extract_key_value_pairs_with_rag call: its argument,
                         \* the collection before it, and the result of each of its queries
    load_frame           \* one load of a folder into an empty policy collection: the
                         \* folder, the collection it gives and its chunk_count

vars == <<GEMINI_API_KEY, SERPAPI_API_KEY, SERPAPI_AVAILABLE,
          user_collection, policy_collection, collection,
          req, context_docs, route, calls, result, raised,
          ELEVENLABS_API_KEY, ELEVENLABS_AVAILABLE,
          audio_cache, producer_calls, tts, tts_calls, tts_failed,
          split, last_index, _mortgage_kb, rag_service, app_initialized, handler,
          prompt_frame, embed_frame, _rag_service, getters, constructed, policy_loads,
          indexer, policy_deleted, extraction, load_frame>>

configVars == <<GEMINI_API_KEY, SERPAPI_API_KEY, SERPAPI_AVAILABLE>>
storeVars  == <<user_collection, policy_collection, collection>>
queryVars  == <<req, context_docs, route, calls, result, raised>>
ttsVars    == <<ELEVENLABS_API_KEY, ELEVENLABS_AVAILABLE,
                audio_cache, producer_calls, tts, tts_calls, tts_failed>>
getterVars == <<_rag_service, getters, constructed, policy_loads>>
indexerVars == <<indexer, policy_deleted>>
moreVars   == <<prompt_frame, embed_frame, getterVars, indexerVars, extraction, load_frame>>
auxVars    == <<split, last_index, _mortgage_kb, rag_service, app_initialized, handler,
                moreVars>>

\* _mortgage_kb = None, _rag_service = None
NoInstance == 0

(***************************************************************************)
(* Bounds of the model.                                                    *)
(***************************************************************************)
MaxTextBlocks == 3      \* document texts have 0..MaxTextBlocks blocks of TextBlock characters
MaxResults    == 2      \* n_results ranges over 1..MaxResults
TextBlock     == 450    \* granularity of the text lengths that are tried
NumCallers    == 2      \* callers of text_to_speech that may run at the same time
MaxTtsCalls   == 3      \* text_to_speech calls in one run
AudioChunks   == 2      \* pieces the audio stream of one synthesis comes in
MaxSplitLen   == 2000   \* texts chunked with the default sizes have 0..MaxSplitLen characters
MaxSnapLen    == 6      \* texts chunked with small sizes have 0..MaxSnapLen characters
MaxChunkSize  == 5      \* the small chunk sizes are 2..MaxChunkSize
MaxIndexCalls == 2      \* indexing calls in one run

(***************************************************************************)
(* Program constants.                                                      *)
(***************************************************************************)
ChunkSize    == 1000    \* chunk_size
ChunkOverlap == 200     \* chunk_overlap

Min(a, b) == IF a < b THEN a ELSE b

(***************************************************************************)
(* Texts.  A text is known by an identity and a length; the slice          *)
(* text[a:b] is the triple <<identity, a, min(b, len)>>.                   *)
(***************************************************************************)
TextIds   == {"v1", "v2"}
TextLens  == {i * TextBlock : i \in 0..MaxTextBlocks}
Texts     == [tid : TextIds, len : TextLens]
Slice(text, a, b) == <<text.tid, a, Min(b, text.len)>>

(***************************************************************************)
(* Chunker: _split_text(text, chunk_size, chunk_overlap).                  *)
(***************************************************************************)
RECURSIVE SplitFrom(_, _, _, _)
SplitFrom(text, start, chunk_size, chunk_overlap) ==
    IF start < text.len
    THEN <<Slice(text, start, start + chunk_size)>>
         \o SplitFrom(text, (start + chunk_size) - chunk_overlap, chunk_size, chunk_overlap)
    ELSE <<>>

_split_text(text, chunk_size, chunk_overlap) == SplitFrom(text, 0, chunk_size, chunk_overlap)

(***************************************************************************)
(* The chunkers, one loop iteration at a time.                             *)
(*   "_split_text"            MortgageKnowledgeBase / RAGDocumentService   *)
(*   "split_text_into_chunks" RAG/rag_utils.py, which snaps a window's end *)
(*                            to a sentence terminator and strips chunks   *)
(* The first works on a text known by its length, the second on the tuple  *)
(* of characters text.chars.  starts records the value of start at each    *)
(* append.                                                                 *)
(***************************************************************************)
Max(a, b) == IF a > b THEN a ELSE b
MaxIterations == MaxSnapLen + 2     \* loop iterations followed in one call

\* a variant of the advance that forgets the overlap
next_start_no_overlap(end, chunk_overlap) == end

\* start = end - chunk_overlap
next_start(end, chunk_overlap) == end - chunk_overlap

Alphabet  == {"a", ".", " "}
CharTexts == UNION {[1..n -> Alphabet] : n \in 0..MaxSnapLen}

\* Python's text[a:b]: a negative index counts from the end, indexes are clipped
py_index(i, n) == IF i < 0 THEN Max(i + n, 0) ELSE Min(i, n)
py_slice(text, a, b) ==
    SubSeq(text, py_index(a, Len(text)) + 1, py_index(b, Len(text)))

\* str.rfind: the last 0-based index of ch, -1 when absent
rfind(chunk, ch) ==
    IF \E i \in 1..Len(chunk) : chunk[i] = ch
    THEN (CHOOSE i \in 1..Len(chunk) :
             chunk[i] = ch /\ \A j \in (i + 1)..Len(chunk) : chunk[j] # ch) - 1
    ELSE -1

\* str.strip
strip(chunk) ==
    LET kept == {i \in 1..Len(chunk) : chunk[i] # " "}
    IN  IF kept = {} THEN <<>>
        ELSE SubSeq(chunk, CHOOSE i \in kept : \A j \in kept : i <= j,
                           CHOOSE i \in kept : \A j \in kept : i >= j)

NoSplit == [fn |-> "none", text |-> [tid |-> "", len |-> 0, chars |-> <<>>], chunk_size |-> 0, chunk_overlap |-> 0,
            start |-> 0, chunks |-> <<>>, starts |-> <<>>, pc |-> "idle"]
SplitFrame(fn, text, chunk_size, chunk_overlap) ==
    [fn |-> fn, text |-> text, chunk_size |-> chunk_size, chunk_overlap |-> chunk_overlap,
     start |-> 0, chunks |-> <<>>, starts |-> <<>>, pc |-> "entry"]

\* the (chunk_size, overlap) pairs tried besides the default: 0 < overlap < chunk_size
SmallSizes == {p \in (2..MaxChunkSize) \X (1..MaxChunkSize) : p[2] < p[1]}

SplitFrames ==
    {SplitFrame("_split_text", [tid |-> "v1", len |-> n, chars |-> <<>>],
                ChunkSize, ChunkOverlap) : n \in 0..MaxSplitLen}
    \cup {SplitFrame("_split_text", [tid |-> "v1", len |-> n, chars |-> <<>>], p[1], p[2]) :
            n \in 0..MaxSnapLen, p \in SmallSizes}
    \cup {SplitFrame("split_text_into_chunks",
                     [tid |-> "chars", len |-> Len(t), chars |-> t], p[1], p[2]) :
            t \in CharTexts, p \in SmallSizes}

\* _split_text: chunks = [], start = 0
SplitEnter ==
    /\ split.fn = "_split_text"
    /\ split.pc = "entry"
    /\ split' = [split EXCEPT !.pc = "loop"]

\* _split_text: one iteration of  while start < len(text)
SplitIterate ==
    /\ split.fn = "_split_text"
    /\ split.pc = "loop"
    /\ split.start < split.text.len
    /\ Len(split.chunks) < MaxIterations
    /\ LET end == split.start + split.chunk_size
       IN  split' = [split EXCEPT
                       !.chunks = Append(@, Slice(split.text, split.start, end)),
                       !.starts = Append(@, split.start),
                       !.start  = next_start(end, split.chunk_overlap)]

\* _split_text: the loop condition is false, return chunks
SplitReturn ==
    /\ split.fn = "_split_text"
    /\ split.pc = "loop"
    /\ ~(split.start < split.text.len)
    /\ split' = [split EXCEPT !.pc = "done"]

\* split_text_into_chunks:  if len(text) <= chunk_size: return [text]
SnapShort ==
    /\ split.fn = "split_text_into_chunks"
    /\ split.pc = "entry"
    /\ Len(split.text.chars) <= split.chunk_size
    /\ split' = [split EXCEPT !.chunks = <<split.text.chars>>, !.pc = "done"]

\* split_text_into_chunks: one iteration of the loop, the break included
SnapIterate ==
    /\ split.fn = "split_text_into_chunks"
    /\ \/ split.pc = "entry" /\ ~(Len(split.text.chars) <= split.chunk_size)
       \/ split.pc = "loop"
    /\ split.start < Len(split.text.chars)
    /\ Len(split.chunks) < MaxIterations
    /\ LET start  == split.start
           end0   == start + split.chunk_size
           chunk0 == py_slice(split.text.chars, start, end0)
           last_sentence_end ==
               Max(rfind(chunk0, "."), Max(rfind(chunk0, "!"), rfind(chunk0, "?")))
           snap   == end0 < Len(split.text.chars)
                     /\ last_sentence_end > start + (split.chunk_size \div 2)
           end    == IF snap THEN start + last_sentence_end + 1 ELSE end0
           chunk  == IF snap THEN py_slice(split.text.chars, start, start + last_sentence_end + 1)
                     ELSE chunk0
           next   == next_start(end, split.chunk_overlap)
       IN  split' = [split EXCEPT
                       !.chunks = Append(@, strip(chunk)),
                       !.starts = Append(@, start),
                       !.start  = next,
                       !.pc     = IF next >= Len(split.text.chars) THEN "done" ELSE "loop"]

(***************************************************************************)
(* Collection store: upsert overwrites the entry that has the same id.     *)
(***************************************************************************)
upsert(coll, chunk) == {c \in coll : c.id # chunk.id} \cup {chunk}
count(coll) == Cardinality(coll)

RECURSIVE UpsertAll(_, _, _)
UpsertAll(coll, chunks, k) ==
    \* upsert chunks[1..k] in order
    IF k = 0 THEN coll ELSE upsert(UpsertAll(coll, chunks, k - 1), chunks[k])

(***************************************************************************)
(* Indexing.  failAt is the 1-based position of the first chunk whose      *)
(* embedding or upsert raises (Len(chunks) + 1: none does).                *)
(***************************************************************************)
DocIds == {"d1"}
FileName(document_id) == document_id \o ".pdf"

UserChunk(document_id, filename, chunks, i) ==
    [id   |-> <<"user", document_id, "chunk", i - 1>>,
     text |-> chunks[i],
     meta |-> [document_id |-> document_id, filename |-> filename,
               source |-> "user_upload",
               chunk_index |-> i - 1, total_chunks |-> Len(chunks)]]

\* a variant that numbers the chunks of a call after those already stored
add_user_document_append(coll, document_id, text, filename, failAt) ==
    LET chunks == _split_text(text, ChunkSize, ChunkOverlap)
        recs   == [i \in 1..Len(chunks) |->
                     [UserChunk(document_id, filename, chunks, i) EXCEPT
                        !.id = <<"user", document_id, "chunk", count(coll) + i - 1>>]]
    IN  [coll |-> UpsertAll(coll, recs, Min(failAt - 1, Len(chunks))),
         ok   |-> failAt > Len(chunks)]

\* MortgageKnowledgeBase.add_user_document: one try around the whole loop, so
\* the first failing chunk ends the loop and the chunks before it stay stored.
add_user_document(coll, document_id, text, filename, failAt) ==
    LET chunks == _split_text(text, ChunkSize, ChunkOverlap)
        recs   == [i \in 1..Len(chunks) |-> UserChunk(document_id, filename, chunks, i)]
    IN  [coll |-> UpsertAll(coll, recs, Min(failAt - 1, Len(chunks))),
         ok   |-> failAt > Len(chunks)]

RagChunk(document_id, chunks, i) ==
    [id   |-> <<document_id, "chunk", i - 1>>,
     text |-> chunks[i],
     meta |-> [document_id |-> document_id,
               chunk_index |-> i - 1, total_chunks |-> Len(chunks)]]

\* RAGDocumentService.add_document
add_document(coll, document_id, text, failAt) ==
    LET chunks == _split_text(text, ChunkSize, ChunkOverlap)
        recs   == [i \in 1..Len(chunks) |-> RagChunk(document_id, chunks, i)]
    IN  [coll |-> UpsertAll(coll, recs, Min(failAt - 1, Len(chunks))),
         ok   |-> failAt > Len(chunks)]

(***************************************************************************)
(* Policy documents: the PDFs under RAG/documents, in os.walk order.       *)
(* pages[i] is the extracted text of page i, of length 0 when the page     *)
(* yields no text.                                                         *)
(***************************************************************************)
Folder ==
    << [filename |-> "guide.pdf", path |-> "fha/guide.pdf",
        pages |-> << [tid |-> "fha1", len |-> 1200], [tid |-> "fha2", len |-> 0] >>],
       [filename |-> "limits.pdf", path |-> "fannie/limits.pdf",
        pages |-> << [tid |-> "fan1", len |-> 300] >>] >>

\* the page dicts collected by the os.walk loop (pages without text are left out)
RECURSIVE PagesOf(_, _)
PagesOf(pdf, i) ==
    IF i > Len(pdf.pages) THEN <<>>
    ELSE (IF pdf.pages[i].len > 0
          THEN << [pdf_name |-> pdf.filename, page_number |-> i,
                   text |-> pdf.pages[i], path |-> pdf.path] >>
          ELSE <<>>) \o PagesOf(pdf, i + 1)

RECURSIVE LoadedPages(_, _)
LoadedPages(folder, k) ==
    IF k > Len(folder) THEN <<>> ELSE PagesOf(folder[k], 1) \o LoadedPages(folder, k + 1)

\* str.replace('.pdf', '') on the names the folder holds
StripPdf(filename) ==
    IF Len(filename) >= 4 /\ SubSeq(filename, Len(filename) - 3, Len(filename)) = ".pdf"
    THEN SubSeq(filename, 1, Len(filename) - 4) ELSE filename

PolicyChunk(doc, chunks, i) ==
    [id   |-> <<StripPdf(doc.pdf_name), "page", doc.page_number, "chunk", i - 1>>,
     text |-> chunks[i],
     meta |-> [pdf_name |-> doc.pdf_name, page_number |-> doc.page_number,
               path |-> doc.path]]

\* the records of the chunks whose upsert does not raise
RECURSIVE Upserted(_, _)
Upserted(recs, failing) ==
    IF recs = <<>> THEN <<>>
    ELSE (IF Head(recs).id \in failing THEN <<>> ELSE <<Head(recs)>>)
         \o Upserted(Tail(recs), failing)

\* the chunk loop: each upsert has a try of its own, so a chunk whose
\* embedding or upsert raises (its id is in failing) is left out and the
\* loop goes on
RECURSIVE LoadChunks(_, _, _, _)
LoadChunks(coll, documents, k, failing) ==
    IF k > Len(documents) THEN coll
    ELSE LET doc    == documents[k]
             chunks == _split_text(doc.text, ChunkSize, ChunkOverlap)
             recs   == [i \in 1..Len(chunks) |-> PolicyChunk(doc, chunks, i)]
             kept   == Upserted(recs, failing)
         IN  LoadChunks(UpsertAll(coll, kept, Len(kept)), documents, k + 1, failing)

\* the upsert arguments of the chunk loop of load_documents_from_folder, in order
RECURSIVE PolicyRecs(_, _)
PolicyRecs(documents, k) ==
    IF k > Len(documents) THEN <<>>
    ELSE LET doc    == documents[k]
             chunks == _split_text(doc.text, ChunkSize, ChunkOverlap)
         IN  [i \in 1..Len(chunks) |-> PolicyChunk(doc, chunks, i)]
             \o PolicyRecs(documents, k + 1)

\* a folder in which two PDFs in different subfolders have the same file name
FolderSharedName ==
    << [filename |-> "guide.pdf", path |-> "fha/guide.pdf",
        pages |-> << [tid |-> "fha1", len |-> 1200] >>],
       [filename |-> "guide.pdf", path |-> "fannie/guide.pdf",
        pages |-> << [tid |-> "fan1", len |-> 300] >>] >>

\* MortgageKnowledgeBase.load_documents_from_folder
load_documents_from_folder(coll, folder, force_reload, failing) ==
    LET cleared == IF force_reload THEN {} ELSE coll
    IN  IF count(cleared) > 0 /\ ~force_reload THEN cleared
        ELSE LoadChunks(cleared, LoadedPages(folder, 1), 1, failing)

(***************************************************************************)
(* Question classifier of rag_query: any(keyword in question.lower()).     *)
(***************************************************************************)
general_keywords ==
    {"current", "average", "typical", "what is", "how much", "explain",
     "define", "difference between", "requirements for", "process of",
     "rate", "rates", "guidelines", "rules", "regulations", "qualify"}

UpperCase == "ABCDEFGHIJKLMNOPQRSTUVWXYZ"
LowerCase == "abcdefghijklmnopqrstuvwxyz"

\* str.lower() on one character
LowerChar(c) ==
    IF \E i \in 1..Len(UpperCase) : SubSeq(UpperCase, i, i) = c
    THEN LET i == CHOOSE j \in 1..Len(UpperCase) : SubSeq(UpperCase, j, j) = c
         IN  SubSeq(LowerCase, i, i)
    ELSE c

\* str.lower()
RECURSIVE lower(_)
lower(s) == IF Len(s) = 0 THEN "" ELSE LowerChar(SubSeq(s, 1, 1)) \o lower(SubSeq(s, 2, Len(s)))

\* keyword in s
Contains(s, keyword) ==
    \E i \in 1..(Len(s) - Len(keyword) + 1) : SubSeq(s, i, i + Len(keyword) - 1) = keyword

\* a variant that forgets to lower-case the question
is_general_question_cased(question) ==
    \E keyword \in general_keywords : Contains(question, keyword)

is_general_question(question) ==
    \E keyword \in general_keywords : Contains(lower(question), keyword)

Questions ==
    {"What is the current average mortgage rate?",
     "What is the loan amount on page 3 of my statement?",
     "Who signed my loan agreement?",
     "List the GUIDELINES in my file",
     "Summarize the separate schedule",
     "What are the names mentioned in this document?",
     "What are the dates mentioned in this document?"}

\* the label of each question that is asked
Classified == [q \in Questions |->
                 IF is_general_question(q) THEN "GENERAL" ELSE "DOCUMENT_SPECIFIC"]
classify(question) == Classified[question]

(***************************************************************************)
(* Collaborator outcomes of one query.                                     *)
(*   store : "ok", or the collection whose count()/query() raises          *)
(*   web   : "raise", or the snippets of the organic results SerpAPI       *)
(*           returns (an empty string: a result without snippet)           *)
(*   gen   : "ok" (generate_content returns text) or "raise"               *)
(***************************************************************************)
Snippet == "30-year fixed rates averaged 6.5% in Q3."
StoreOutcomes == {"ok", "user_raises", "policy_raises"}
WebOutcomes   == {"raise", <<>>, <<"">>, <<Snippet>>}
GenOutcomes   == {"ok", "raise"}

\* nearest-neighbour query: the n_results nearest stored chunks, nearest first.
\* Which chunks are nearest is decided by the embeddings: any choice.
HitSeqs(coll, n_results) ==
    LET k == Min(n_results, count(coll))
    IN  {h \in [1..k -> coll] : \A i, j \in 1..k : i # j => h[i] # h[j]}

\* the snippets kept by  [s for s in snippets if s]
RECURSIVE NonEmpty(_)
NonEmpty(snippets) ==
    IF snippets = <<>> THEN <<>>
    ELSE (IF Head(snippets) = "" THEN <<>> ELSE <<Head(snippets)>>) \o NonEmpty(Tail(snippets))

\* the text the Generator returns for a prompt built on the given context
GenText(kind) == "generated answer from " \o kind \o " context"

SERPAPI_CONFIGURED == SERPAPI_API_KEY /\ SERPAPI_AVAILABLE

(***************************************************************************)
(* MortgageKnowledgeBase._web_search_fallback: the answer (None: no        *)
(* answer) and the collaborator calls made.                                *)
(***************************************************************************)
None == "None"

_web_search_fallback(web, gen) ==
    LET entered == << [op |-> "web_search"] >>
        search  == << [op |-> "GoogleSearch"] >>
    IN
    IF ~SERPAPI_CONFIGURED THEN [answer |-> None, calls |-> entered]
    ELSE IF web = "raise" THEN [answer |-> None, calls |-> entered \o search]
    ELSE IF NonEmpty(web) = <<>> THEN [answer |-> None, calls |-> entered \o search]
    ELSE IF ~GEMINI_API_KEY THEN [answer |-> None, calls |-> entered \o search]
    ELSE LET generate == << [op |-> "generate", context |-> "web", docs |-> NonEmpty(web)] >>
         IN  IF gen = "raise"
             THEN [answer |-> None, calls |-> entered \o search \o generate]
             ELSE [answer |-> GenText("web"), calls |-> entered \o search \o generate]

\* a variant that tags a user-document hit as a policy document
UserSource_mistagged(meta) ==
    [type |-> "policy_document", filename |-> meta.filename,
     document_id |-> meta.document_id,
     chunk |-> <<meta.chunk_index + 1, meta.total_chunks>>]

UserSource(meta) ==
    [type |-> "user_document", filename |-> meta.filename,
     document_id |-> meta.document_id,
     chunk |-> <<meta.chunk_index + 1, meta.total_chunks>>]

PolicySource(meta) ==
    [type |-> "policy_document", pdf_name |-> meta.pdf_name,
     page |-> meta.page_number, path |-> meta.path]

\* a variant of the guard that leaves out the count() test
should_query_any_count(search, coll) == search

\* if search_user_docs and self.user_collection.count() > 0  (same for policy)
should_query(search, coll) == search /\ count(coll) > 0

(***************************************************************************)
(* MortgageKnowledgeBase.query, the body of its try block.  exc: an        *)
(* exception left the body (err: its text).                                *)
(***************************************************************************)
KBTry(question, uhits, phits, search_user_docs, search_policy_docs, store, web, gen) ==
    LET userFails   == search_user_docs /\ store = "user_raises"
        useUser     == should_query(search_user_docs, user_collection)
        policyFails == search_policy_docs /\ store = "policy_raises"
        usePolicy   == should_query(search_policy_docs, policy_collection)
        ucalls      == IF useUser THEN << [op |-> "query", coll |-> "user"] >> ELSE <<>>
        pcalls      == IF usePolicy THEN << [op |-> "query", coll |-> "policy"] >> ELSE <<>>
        udocs       == IF useUser THEN uhits ELSE <<>>
        pdocs       == IF usePolicy THEN phits ELSE <<>>
        all_context_docs == [i \in 1..Len(udocs) |-> udocs[i].text]
                            \o [i \in 1..Len(pdocs) |-> pdocs[i].text]
        all_sources == [i \in 1..Len(udocs) |-> UserSource(udocs[i].meta)]
                       \o [i \in 1..Len(pdocs) |-> PolicySource(pdocs[i].meta)]
        NoResult    == [answer |-> None]
    IN
    IF userFails
    THEN [exc |-> TRUE, err |-> "user collection unavailable", context_docs |-> <<>>,
          route |-> "error", calls |-> <<>>, result |-> NoResult]
    ELSE IF policyFails
    THEN [exc |-> TRUE, err |-> "policy collection unavailable", context_docs |-> udocs,
          route |-> "error", calls |-> ucalls, result |-> NoResult]
    ELSE IF all_context_docs = <<>>
    THEN LET w == _web_search_fallback(web, gen)
         IN  [exc |-> FALSE, err |-> "", context_docs |-> <<>>, route |-> "web",
              calls |-> ucalls \o pcalls \o w.calls,
              result |->
                 IF w.answer # None
                 THEN [answer |-> w.answer, sources |-> <<>>,
                       documents_found |-> 0, web_search_used |-> TRUE]
                 ELSE [answer |-> "No relevant information found in documents or web search. Try uploading documents or rephrasing your question.",
                       sources |-> <<>>,
                       documents_found |-> 0, web_search_used |-> FALSE]]
    ELSE IF ~GEMINI_API_KEY
    THEN [exc |-> FALSE, err |-> "", context_docs |-> udocs \o pdocs, route |-> "local",
          calls |-> ucalls \o pcalls,
          result |-> [answer |-> "Gemini API key not configured.",
                      sources |-> all_sources,
                      documents_found |-> Len(all_context_docs)]]
    ELSE LET generate == << [op |-> "generate", context |-> "local", docs |-> all_context_docs] >>
         IN  IF gen = "raise"
             THEN [exc |-> TRUE, err |-> "generator unavailable",
                   context_docs |-> udocs \o pdocs, route |-> "local",
                   calls |-> ucalls \o pcalls \o generate, result |-> NoResult]
             ELSE [exc |-> FALSE, err |-> "", context_docs |-> udocs \o pdocs,
                   route |-> "local", calls |-> ucalls \o pcalls \o generate,
                   result |-> [answer |-> GenText("local"),
                               sources |-> all_sources,
                               context_snippets |-> SubSeq(all_context_docs, 1, Min(2, Len(all_context_docs))),
                               documents_found |-> Len(all_context_docs),
                               searched_user_docs |-> useUser,
                               searched_policy_docs |-> usePolicy]]

\* a variant of query without its except clause: the exception reaches the caller
query_uncaught(question, uhits, phits, search_user_docs, search_policy_docs, store, web, gen) ==
    LET b == KBTry(question, uhits, phits, search_user_docs, search_policy_docs, store, web, gen)
    IN  [context_docs |-> b.context_docs, route |-> b.route, calls |-> b.calls,
         result |-> b.result, raised |-> b.exc]

\* MortgageKnowledgeBase.query: the try block and its  except Exception
query(question, uhits, phits, search_user_docs, search_policy_docs, store, web, gen) ==
    LET b == KBTry(question, uhits, phits, search_user_docs, search_policy_docs, store, web, gen)
    IN  [context_docs |-> b.context_docs, route |-> b.route, calls |-> b.calls,
         result |-> IF b.exc
                    THEN [answer |-> "Error querying: " \o b.err,
                          sources |-> <<>>, documents_found |-> 0]
                    ELSE b.result,
         raised |-> FALSE]

(***************************************************************************)
(* RAGDocumentService.                                                     *)
(***************************************************************************)
\* query_documents: the hit texts; an exception of the store gives []
query_documents(hits, store) ==
    IF store = "ok" THEN [i \in 1..Len(hits) |-> hits[i].text] ELSE <<>>

\* _web_search: the non-empty snippets; [] when unconfigured or failing
_web_search(web) ==
    LET entered == << [op |-> "web_search"] >>
        search  == << [op |-> "GoogleSearch"] >>
    IN
    IF ~SERPAPI_CONFIGURED THEN [snippets |-> <<>>, calls |-> entered]
    ELSE IF web = "raise" THEN [snippets |-> <<>>, calls |-> entered \o search]
    ELSE [snippets |-> NonEmpty(web), calls |-> entered \o search]

\* _generate_general_response
_generate_general_response(question, web, gen) ==
    IF ~GEMINI_API_KEY
    THEN [answer |-> "Gemini API key is not configured.", calls |-> <<>>]
    ELSE LET w        == _web_search(web)
             kind     == IF w.snippets = <<>> THEN "none" ELSE "web"
             generate == << [op |-> "generate", context |-> kind, docs |-> w.snippets] >>
         IN  IF gen = "raise"
             THEN [answer |-> "I'm here to help with mortgage questions, but I encountered an error fetching or generating the answer. Error: generator unavailable",
                   calls |-> w.calls \o generate]
             ELSE [answer |-> GenText(kind), calls |-> w.calls \o generate]

\* generate_response
generate_response(question, docs, gen) ==
    IF ~GEMINI_API_KEY
    THEN [answer |-> "Gemini API key not configured. Cannot generate response.",
          calls |-> <<>>]
    ELSE LET generate == << [op |-> "generate", context |-> "local", docs |-> docs] >>
         IN  IF gen = "raise"
             THEN [answer |-> "Error generating response: generator unavailable",
                   calls |-> generate]
             ELSE [answer |-> GenText("local"), calls |-> generate]

\* a variant of the routing test with "and" in place of "or"
use_web_branch_and(question, docs) == classify(question) = "GENERAL" /\ docs = <<>>

\* if is_general_question or not context_docs
use_web_branch(question, docs) == classify(question) = "GENERAL" \/ docs = <<>>

\* rag_query
rag_query(question, hits, store, web, gen) ==
    LET docs   == query_documents(hits, store)
        qcalls == << [op |-> "query", coll |-> "documents"] >>
    IN
    IF use_web_branch(question, docs)
    THEN LET g == _generate_general_response(question, web, gen)
         IN  [context_docs |-> docs, route |-> "web", calls |-> qcalls \o g.calls,
              result |-> [answer |-> g.answer, sources |-> <<>>,
                          context_used |-> FALSE, web_search_used |-> TRUE],
              raised |-> FALSE]
    ELSE LET g == generate_response(question, docs, gen)
         IN  [context_docs |-> docs, route |-> "local", calls |-> qcalls \o g.calls,
              result |-> [answer |-> g.answer, sources |-> docs,
                          context_used |-> TRUE, num_sources |-> Len(docs),
                          web_search_used |-> FALSE],
              raised |-> FALSE]

(***************************************************************************)
(* Speech cache of MortgageKnowledgeBase.text_to_speech.                   *)
(***************************************************************************)
TtsTexts == {"hello", "twin A", "twin B"}
Voices   == {"v1", "v2"}
Callers  == 1..NumCallers

\* hashlib.md5(text.encode()).hexdigest()[:16]: 64 of the digest's 128 bits,
\* so distinct texts can share a prefix.  "twin A" and "twin B" stand for two
\* texts that do (a birthday search finds such a pair in about 2^32 digests).
md5_16(text) ==
    CASE text = "hello"  -> "5d41402abc4b2a76"
      [] text = "twin A" -> "9b2f0c6e41d7a853"
      [] text = "twin B" -> "9b2f0c6e41d7a853"

\* a variant of the cache file name that leaves out the voice
cache_file_any_voice(text, voice_id) == md5_16(text) \o ".mp3"

\* cache_file = f"{text_hash}_{voice_id}.mp3"
cache_file(text, voice_id) == md5_16(text) \o "_" \o voice_id \o ".mp3"

\* b"".join(list(audio_generator)) of a successful convert(text, voice_id)
Audio(text, voice_id) == [i \in 1..AudioChunks |-> <<text, voice_id, i>>]

NoBytes     == [kind |-> "None"]
Bytes(b)    == [kind |-> "bytes", bytes |-> b]
IdleCaller  == [pc |-> "idle", text |-> "", voice_id |-> "", audio_bytes |-> <<>>,
                ret |-> NoBytes, hit |-> FALSE, produced |-> FALSE]

exists(file) == file \in DOMAIN audio_cache
\* open(file, "wb") creates or truncates; f.write(bytes) then stores bytes
Stored(file, bytes) == (file :> bytes) @@ audio_cache

ttsConfigVars == <<ELEVENLABS_API_KEY, ELEVENLABS_AVAILABLE>>

\* lines 418-441: the configuration checks and os.path.exists(cache_file)
TtsCall(c, text, voice_id) ==
    /\ tts[c].pc = "idle"
    /\ tts_calls < MaxTtsCalls
    /\ tts_calls' = tts_calls + 1
    /\ tts' = [tts EXCEPT ![c] =
                 [IdleCaller EXCEPT
                    !.text = text, !.voice_id = voice_id,
                    !.pc = IF ~ELEVENLABS_AVAILABLE \/ ~ELEVENLABS_API_KEY THEN "done"
                           ELSE IF exists(cache_file(text, voice_id)) THEN "hit"
                           ELSE "miss",
                    !.hit = ELEVENLABS_AVAILABLE /\ ELEVENLABS_API_KEY
                            /\ exists(cache_file(text, voice_id))]]
    /\ UNCHANGED <<audio_cache, producer_calls, tts_failed>>

\* lines 439-440: open(cache_file, "rb") and f.read()
TtsReadCached(c) ==
    /\ tts[c].pc = "hit"
    /\ tts' = [tts EXCEPT ![c].pc = "done",
                          ![c].ret = Bytes(audio_cache[cache_file(tts[c].text, tts[c].voice_id)])]
    /\ UNCHANGED <<audio_cache, producer_calls, tts_calls, tts_failed>>

\* lines 444-451: the producer; an exception ends the call with None
TtsConvert(c, outcome) ==
    /\ tts[c].pc = "miss"
    /\ producer_calls' = [producer_calls EXCEPT ![<<tts[c].text, tts[c].voice_id>>] = @ + 1]
    /\ IF outcome = "ok"
       THEN /\ tts' = [tts EXCEPT ![c].pc = "produced", ![c].produced = TRUE,
                                  ![c].audio_bytes = Audio(tts[c].text, tts[c].voice_id)]
            /\ UNCHANGED tts_failed
       ELSE /\ tts' = [tts EXCEPT ![c].pc = "done", ![c].produced = TRUE, ![c].ret = NoBytes]
            /\ tts_failed' = TRUE
    /\ UNCHANGED <<audio_cache, tts_calls>>

\* line 454: open(cache_file, "wb") leaves an empty file
TtsOpen(c, outcome) ==
    /\ tts[c].pc = "produced"
    /\ IF outcome = "ok"
       THEN /\ audio_cache' = Stored(cache_file(tts[c].text, tts[c].voice_id), <<>>)
            /\ tts' = [tts EXCEPT ![c].pc = "opened"]
            /\ UNCHANGED tts_failed
       ELSE /\ tts' = [tts EXCEPT ![c].pc = "done", ![c].ret = NoBytes]
            /\ tts_failed' = TRUE
            /\ UNCHANGED audio_cache
    /\ UNCHANGED <<producer_calls, tts_calls>>

\* lines 455-458: f.write(audio_bytes), close, return audio_bytes; a write
\* that raises leaves the bytes written so far
TtsWrite(c, outcome) ==
    /\ tts[c].pc = "opened"
    /\ IF outcome = "ok"
       THEN /\ audio_cache' = Stored(cache_file(tts[c].text, tts[c].voice_id),
                                     tts[c].audio_bytes)
            /\ tts' = [tts EXCEPT ![c].pc = "done", ![c].ret = Bytes(tts[c].audio_bytes)]
            /\ UNCHANGED tts_failed
       ELSE /\ audio_cache' = Stored(cache_file(tts[c].text, tts[c].voice_id),
                                     SubSeq(tts[c].audio_bytes, 1, AudioChunks - 1))
            /\ tts' = [tts EXCEPT ![c].pc = "done", ![c].ret = NoBytes]
            /\ tts_failed' = TRUE
    /\ UNCHANGED <<producer_calls, tts_calls>>

\* the caller has the return value; its frame is gone
TtsReturn(c) ==
    /\ tts[c].pc = "done"
    /\ tts' = [tts EXCEPT ![c] = IdleCaller]
    /\ UNCHANGED <<audio_cache, producer_calls, tts_calls, tts_failed>>

(***************************************************************************)
(* State machine.  A request handler runs from call to return as one step; *)
(* the dict it returns stays observable until the router has sent it.      *)
(***************************************************************************)
NoReq == [svc |-> "none", question |-> "", search_user_docs |-> FALSE,
          search_policy_docs |-> FALSE, store |-> "ok", web |-> <<>>, gen |-> "ok",
          uhits |-> <<>>, phits |-> <<>>]
Idle  == req.svc = "none"

\* the texts that are indexed before questions are asked
IndexedTexts == {t \in Texts : t.tid = "v1" /\ t.len = 2 * TextBlock}

(***************************************************************************)
(* The context a prompt is built from.  Documents are strings; the context *)
(* is their concatenation with the separator the function uses.            *)
(*   RAG/rag_utils.py  RAGSystem.generate_response_with_context            *)
(*   backend/mortgage_kb_service.py  MortgageKnowledgeBase.query, the      *)
(*   prompt it builds once the retrieval bundle is not empty               *)
(***************************************************************************)
MaxContextLength == 4   \* max_context_length ranges over 1..MaxContextLength
MaxContextDocs   == 2   \* a context is built from at most MaxContextDocs documents

ContextDocs == UNION {[1..n -> {"a", "bc", "d.."}] : n \in 0..MaxContextDocs}

RECURSIVE join(_, _)
join(sep, docs) ==
    IF Len(docs) = 0 THEN ""
    ELSE IF Len(docs) = 1 THEN docs[1]
    ELSE docs[1] \o sep \o join(sep, Tail(docs))

\* text[:n]
prefix(text, n) == SubSeq(text, 1, Min(n, Len(text)))

\* the context of generate_response_with_context
truncated_context(docs, max_context_length) ==
    LET context == join(" ", docs)
    IN  IF Len(context) > max_context_length
        THEN prefix(context, max_context_length) \o "..."
        ELSE context

NoPrompt == [fn |-> "", context_docs |-> <<>>, max_context_length |-> 0,
             full |-> "", context |-> "", response |-> "", pc |-> "idle"]

(***************************************************************************)
(* The embedding functions.  A text is known by whether model.encode       *)
(* accepts it; a vector by its dimension and whether it is the zero vector.*)
(***************************************************************************)
MaxEmbedInputs == 3     \* an embedding call gets at most MaxEmbedInputs texts

EmbeddingDimension   == 384   \* the dimension of all-MiniLM-L6-v2 vectors
FallbackDimensionRAG == 768   \* the fallback vector of RAG/app.py

\* per input text, whether self.model.encode(text) returns or raises
EncodeOutcomes == UNION {[1..n -> {"ok", "raise"}] : n \in 0..MaxEmbedInputs}

NoEmbed == [fn |-> "", input |-> <<>>, pc |-> "idle", raised |-> FALSE,
            embeddings |-> <<>>]

(***************************************************************************)
(* The lazy global instances: get_mortgage_kb and get_rag_service.         *)
(***************************************************************************)
Accessors == {"get_mortgage_kb", "get_rag_service"}
NoGetter == [fn |-> "", pc |-> "idle", ret |-> NoInstance]

\* no indexing call is in progress
NoIndexer == [op |-> "none", pc |-> "idle", todo |-> <<>>]

\* no request is being served
NoHandler == [pc |-> "idle", endpoint |-> "", query |-> "", status |-> 0,
              before |-> <<>>]

\* no indexing call has been made
NoText  == [tid |-> "", len |-> 0]
NoPrev  == [op |-> "none", document_id |-> "", text |-> NoText, ok |-> FALSE]
NoIndex == [op |-> "none", n |-> 0, document_id |-> "", text |-> NoText, failAt |-> 0,
            force_reload |-> FALSE, failing |-> {}, ok |-> FALSE, before |-> {},
            prev |-> NoPrev]

\* no extraction call has been made
NoExtraction == [pc |-> "idle", document_text |-> NoText, temp_id |-> "",
                 before |-> {}, results |-> <<>>]

\* no folder is being loaded
NoLoad == [pc |-> "idle", folder |-> <<>>, failing |-> {}, coll |-> {}, chunk_count |-> 0]

InitMore ==
    /\ prompt_frame = NoPrompt
    /\ embed_frame = NoEmbed
    /\ _rag_service = NoInstance
    /\ getters = [c \in Callers |-> NoGetter]
    /\ constructed = [fn \in Accessors |-> 0]
    /\ policy_loads = 0
    /\ indexer = NoIndexer
    /\ policy_deleted = FALSE
    /\ extraction = NoExtraction
    /\ load_frame = NoLoad

Init ==
    /\ GEMINI_API_KEY \in BOOLEAN
    /\ SERPAPI_API_KEY \in BOOLEAN
    /\ SERPAPI_AVAILABLE \in BOOLEAN
    /\ user_collection = {}
    /\ policy_collection = {}
    /\ collection = {}
    /\ req = NoReq
    /\ context_docs = <<>>
    /\ route = "none"
    /\ calls = <<>>
    /\ result = [answer |-> None]
    /\ raised = FALSE
    /\ ELEVENLABS_API_KEY = TRUE
    /\ ELEVENLABS_AVAILABLE = TRUE
    /\ audio_cache = <<>>
    /\ producer_calls = [p \in TtsTexts \X Voices |-> 0]
    /\ tts = [c \in Callers |-> IdleCaller]
    /\ tts_calls = 0
    /\ tts_failed = FALSE
    /\ split = NoSplit
    /\ last_index = NoIndex
    /\ _mortgage_kb = NoInstance
    /\ rag_service = TRUE
    /\ app_initialized = TRUE
    /\ handler = NoHandler
    /\ InitMore

Returned(r, request) ==
    /\ req' = request
    /\ context_docs' = r.context_docs
    /\ route' = r.route
    /\ calls' = r.calls
    /\ result' = r.result
    /\ raised' = r.raised

\* kb.add_user_document(document_id, text, filename)
AddUserDocument ==
    /\ Idle
    /\ \E document_id \in DocIds, text \in IndexedTexts :
        /\ user_collection' =
              add_user_document(user_collection, document_id, text,
                                FileName(document_id),
                                Len(_split_text(text, ChunkSize, ChunkOverlap)) + 1).coll
        /\ UNCHANGED <<auxVars, ttsVars, configVars, policy_collection, collection, queryVars>>

\* rag.add_document(document_id, text)
AddDocument ==
    /\ Idle
    /\ \E document_id \in DocIds, text \in IndexedTexts :
        /\ collection' =
              add_document(collection, document_id, text,
                           Len(_split_text(text, ChunkSize, ChunkOverlap)) + 1).coll
        /\ UNCHANGED <<auxVars, ttsVars, configVars, user_collection, policy_collection, queryVars>>

\* kb.load_documents_from_folder(docs_path, force_reload)
LoadDocuments ==
    /\ Idle
    /\ \E force_reload \in BOOLEAN :
        /\ policy_collection' =
              load_documents_from_folder(policy_collection, Folder, force_reload, {})
        /\ UNCHANGED <<auxVars, ttsVars, configVars, user_collection, collection, queryVars>>

\* kb.query(question, n_results, search_user_docs, search_policy_docs)
KBQuery ==
    /\ Idle
    /\ \E question \in Questions, n_results \in 1..MaxResults,
          search_user_docs \in BOOLEAN, search_policy_docs \in BOOLEAN,
          store \in StoreOutcomes, web \in WebOutcomes, gen \in GenOutcomes :
         \E uhits \in (IF search_user_docs /\ store = "ok"
                       THEN HitSeqs(user_collection, n_results) ELSE {<<>>}),
            phits \in (IF search_policy_docs /\ store = "ok"
                       THEN HitSeqs(policy_collection, n_results) ELSE {<<>>}) :
           Returned(query(question, uhits, phits, search_user_docs, search_policy_docs,
                          store, web, gen),
                    [svc |-> "kb", question |-> question,
                     search_user_docs |-> search_user_docs,
                     search_policy_docs |-> search_policy_docs,
                     store |-> store, web |-> web, gen |-> gen,
                     uhits |-> uhits, phits |-> phits])
    /\ UNCHANGED <<auxVars, ttsVars, configVars, storeVars>>

\* rag.rag_query(question, n_results)
RAGQuery ==
    /\ Idle
    /\ \E question \in Questions, n_results \in 1..MaxResults,
          store \in {"ok", "documents_raises"}, web \in WebOutcomes, gen \in GenOutcomes :
         \E hits \in (IF store = "ok" THEN HitSeqs(collection, n_results) ELSE {<<>>}) :
           Returned(rag_query(question, hits, store, web, gen),
                    [svc |-> "rag", question |-> question,
                     search_user_docs |-> TRUE, search_policy_docs |-> TRUE,
                     store |-> store, web |-> web, gen |-> gen,
                     uhits |-> hits, phits |-> <<>>])
    /\ UNCHANGED <<auxVars, ttsVars, configVars, storeVars>>

\* the router returns the dict to the client; the handler's locals are gone
Respond ==
    /\ ~Idle
    /\ req' = NoReq
    /\ context_docs' = <<>>
    /\ route' = "none"
    /\ calls' = <<>>
    /\ result' = [answer |-> None]
    /\ raised' = FALSE
    /\ UNCHANGED <<auxVars, ttsVars, configVars, storeVars>>

Next ==
    \/ AddUserDocument
    \/ AddDocument
    \/ LoadDocuments
    \/ KBQuery
    \/ RAGQuery
    \/ Respond

Spec == Init /\ [][Next]_vars

(***************************************************************************)
(* The speech cache alone: SpecCache runs the calls one after another,     *)
(* SpecCacheRace lets NumCallers calls interleave at every step.           *)
(***************************************************************************)
InitCache ==
    /\ GEMINI_API_KEY = TRUE
    /\ SERPAPI_API_KEY = TRUE
    /\ SERPAPI_AVAILABLE = TRUE
    /\ user_collection = {}
    /\ policy_collection = {}
    /\ collection = {}
    /\ req = NoReq
    /\ context_docs = <<>>
    /\ route = "none"
    /\ calls = <<>>
    /\ result = [answer |-> None]
    /\ raised = FALSE
    /\ ELEVENLABS_API_KEY \in BOOLEAN
    /\ ELEVENLABS_AVAILABLE \in BOOLEAN
    /\ audio_cache = <<>>
    /\ producer_calls = [p \in TtsTexts \X Voices |-> 0]
    /\ tts = [c \in Callers |-> IdleCaller]
    /\ tts_calls = 0
    /\ tts_failed = FALSE
    /\ split = NoSplit
    /\ last_index = NoIndex
    /\ _mortgage_kb = NoInstance
    /\ rag_service = TRUE
    /\ app_initialized = TRUE
    /\ handler = NoHandler
    /\ InitMore

otherVars == <<configVars, storeVars, queryVars, ttsConfigVars, auxVars>>
NoCallRunning == \A c \in Callers : tts[c].pc = "idle"

CallSeq ==
    /\ NoCallRunning
    /\ \E c \in Callers, text \in TtsTexts, voice_id \in Voices : TtsCall(c, text, voice_id)
    /\ UNCHANGED otherVars

Call ==
    /\ \E c \in Callers, text \in TtsTexts, voice_id \in Voices : TtsCall(c, text, voice_id)
    /\ UNCHANGED otherVars

ReadCached == (\E c \in Callers : TtsReadCached(c)) /\ UNCHANGED otherVars
Convert == (\E c \in Callers, o \in {"ok", "raise"} : TtsConvert(c, o)) /\ UNCHANGED otherVars
Open == (\E c \in Callers, o \in {"ok", "raise"} : TtsOpen(c, o)) /\ UNCHANGED otherVars
Write == (\E c \in Callers, o \in {"ok", "raise"} : TtsWrite(c, o)) /\ UNCHANGED otherVars
Return == (\E c \in Callers : TtsReturn(c)) /\ UNCHANGED otherVars

NextCache == CallSeq \/ ReadCached \/ Convert \/ Open \/ Write \/ Return
SpecCache == InitCache /\ [][NextCache]_vars

NextCacheRace == Call \/ ReadCached \/ Convert \/ Open \/ Write \/ Return
SpecCacheRace == InitCache /\ [][NextCacheRace]_vars

(***************************************************************************)
(* The chunkers alone: every frame of SplitFrames is run to its return.    *)
(***************************************************************************)
InitChunker ==
    /\ GEMINI_API_KEY = TRUE
    /\ SERPAPI_API_KEY = TRUE
    /\ SERPAPI_AVAILABLE = TRUE
    /\ user_collection = {}
    /\ policy_collection = {}
    /\ collection = {}
    /\ req = NoReq
    /\ context_docs = <<>>
    /\ route = "none"
    /\ calls = <<>>
    /\ result = [answer |-> None]
    /\ raised = FALSE
    /\ ELEVENLABS_API_KEY = TRUE
    /\ ELEVENLABS_AVAILABLE = TRUE
    /\ audio_cache = <<>>
    /\ producer_calls = [p \in TtsTexts \X Voices |-> 0]
    /\ tts = [c \in Callers |-> IdleCaller]
    /\ tts_calls = 0
    /\ tts_failed = FALSE
    /\ split \in SplitFrames
    /\ last_index = NoIndex
    /\ _mortgage_kb = NoInstance
    /\ rag_service = TRUE
    /\ app_initialized = TRUE
    /\ handler = NoHandler
    /\ InitMore

notSplitVars == <<configVars, storeVars, queryVars, ttsVars,
                  last_index, _mortgage_kb, rag_service, app_initialized, handler,
                  moreVars>>

NextChunker ==
    \/ SplitEnter /\ UNCHANGED notSplitVars
    \/ SplitIterate /\ UNCHANGED notSplitVars
    \/ SplitReturn /\ UNCHANGED notSplitVars
    \/ SnapShort /\ UNCHANGED notSplitVars
    \/ SnapIterate /\ UNCHANGED notSplitVars

SpecChunker == InitChunker /\ [][NextChunker]_vars

(***************************************************************************)
(* Indexing alone: up to MaxIndexCalls calls of add_user_document,         *)
(* add_document and load_documents_from_folder, with every text of Texts   *)
(* and a failure at any chunk.  last_index keeps the last call: the        *)
(* collection before it, and the call before it.                           *)
(***************************************************************************)
InitIndex ==
    /\ GEMINI_API_KEY = TRUE
    /\ SERPAPI_API_KEY = TRUE
    /\ SERPAPI_AVAILABLE = TRUE
    /\ user_collection = {}
    /\ policy_collection \in {{}, load_documents_from_folder({}, Folder, FALSE, {})}
    /\ collection = {}
    /\ req = NoReq
    /\ context_docs = <<>>
    /\ route = "none"
    /\ calls = <<>>
    /\ result = [answer |-> None]
    /\ raised = FALSE
    /\ ELEVENLABS_API_KEY = TRUE
    /\ ELEVENLABS_AVAILABLE = TRUE
    /\ audio_cache = <<>>
    /\ producer_calls = [p \in TtsTexts \X Voices |-> 0]
    /\ tts = [c \in Callers |-> IdleCaller]
    /\ tts_calls = 0
    /\ tts_failed = FALSE
    /\ split = NoSplit
    /\ last_index = NoIndex
    /\ _mortgage_kb = NoInstance
    /\ rag_service = TRUE
    /\ app_initialized = TRUE
    /\ handler = NoHandler
    /\ InitMore

IndexDocIds == {"d1", "d2"}
NumChunks(text) == Len(_split_text(text, ChunkSize, ChunkOverlap))
Prev == [op |-> last_index.op, document_id |-> last_index.document_id,
         text |-> last_index.text, ok |-> last_index.ok]

\* the ids of the chunks the folder yields
FolderChunkIds == {c.id : c \in load_documents_from_folder({}, Folder, FALSE, {})}

notIndexVars == <<configVars, queryVars, ttsVars, split, _mortgage_kb, rag_service,
                  app_initialized, handler, moreVars>>

\* kb.add_user_document(document_id, text, filename)
IndexUserDocument ==
    /\ last_index.n < MaxIndexCalls
    /\ \E document_id \in IndexDocIds, text \in Texts :
         \E failAt \in 1..(NumChunks(text) + 1) :
           LET r == add_user_document(user_collection, document_id, text,
                                      FileName(document_id), failAt)
           IN  /\ user_collection' = r.coll
               /\ last_index' = [op |-> "add_user_document", n |-> last_index.n + 1,
                                 document_id |-> document_id, text |-> text,
                                 failAt |-> failAt, force_reload |-> FALSE,
                                 failing |-> {}, ok |-> r.ok,
                                 before |-> user_collection, prev |-> Prev]
    /\ UNCHANGED <<notIndexVars, policy_collection, collection>>

\* rag.add_document(document_id, text)
IndexDocument ==
    /\ last_index.n < MaxIndexCalls
    /\ \E document_id \in IndexDocIds, text \in Texts :
         \E failAt \in 1..(NumChunks(text) + 1) :
           LET r == add_document(collection, document_id, text, failAt)
           IN  /\ collection' = r.coll
               /\ last_index' = [op |-> "add_document", n |-> last_index.n + 1,
                                 document_id |-> document_id, text |-> text,
                                 failAt |-> failAt, force_reload |-> FALSE,
                                 failing |-> {}, ok |-> r.ok,
                                 before |-> collection, prev |-> Prev]
    /\ UNCHANGED <<notIndexVars, user_collection, policy_collection>>

\* kb.load_documents_from_folder(folder_path, force_reload)
IndexFolder ==
    /\ last_index.n < MaxIndexCalls
    /\ \E force_reload \in BOOLEAN, failing \in SUBSET FolderChunkIds :
        /\ Cardinality(failing) <= 1
        /\ policy_collection' =
              load_documents_from_folder(policy_collection, Folder, force_reload, failing)
        /\ last_index' = [op |-> "load_documents_from_folder", n |-> last_index.n + 1,
                          document_id |-> "", text |-> NoText,
                          failAt |-> 0, force_reload |-> force_reload,
                          failing |-> failing,
                          ok |-> force_reload \/ count(policy_collection) = 0,
                          before |-> policy_collection, prev |-> Prev]
    /\ UNCHANGED <<notIndexVars, user_collection, collection>>

NextIndex == IndexUserDocument \/ IndexDocument \/ IndexFolder
SpecIndex == InitIndex /\ [][NextIndex]_vars

(***************************************************************************)
(* The route handlers: mortgage_kb_query and rag_query_endpoint of         *)
(* routers.py, ai_tts of app.py.  A handler first validates the request;   *)
(* mortgage_kb_query then gets the lazily constructed knowledge base, which *)
(* on construction loads the policy folder when that exists.               *)
(***************************************************************************)
Missing == "<missing>"      \* request.get("query") of a body without the key

\* a variant of the test that only catches a missing key
not_query_missing_only(q) == q = Missing

\* if not query
not_query(q) == q = Missing \/ q = ""

RouterQuestions == {"What is the current average mortgage rate?",
                    "Who signed my loan agreement?"}
RouterQueries == {Missing, ""} \cup RouterQuestions
Endpoints == {"mortgage_kb_query", "rag_query_endpoint", "ai_tts"}

\* the stores and the global instance as a request finds them
Snapshot == <<user_collection, policy_collection, collection, _mortgage_kb>>

InitRouter ==
    /\ GEMINI_API_KEY \in BOOLEAN
    /\ SERPAPI_API_KEY \in BOOLEAN
    /\ SERPAPI_AVAILABLE = TRUE
    /\ user_collection \in
          {{}, add_user_document({}, "d1", [tid |-> "v1", len |-> TextBlock],
                                 FileName("d1"), 2).coll}
    /\ policy_collection \in {{}, load_documents_from_folder({}, Folder, FALSE, {})}
    /\ collection \in {{}, add_document({}, "d1", [tid |-> "v1", len |-> TextBlock], 2).coll}
    /\ req = NoReq
    /\ context_docs = <<>>
    /\ route = "none"
    /\ calls = <<>>
    /\ result = [answer |-> None]
    /\ raised = FALSE
    /\ ELEVENLABS_API_KEY = TRUE
    /\ ELEVENLABS_AVAILABLE = TRUE
    /\ audio_cache = <<>>
    /\ producer_calls = [p \in TtsTexts \X Voices |-> 0]
    /\ tts = [c \in Callers |-> IdleCaller]
    /\ tts_calls = 0
    /\ tts_failed = FALSE
    /\ split = NoSplit
    /\ last_index = NoIndex
    /\ _mortgage_kb = NoInstance
    /\ rag_service \in BOOLEAN
    /\ app_initialized \in BOOLEAN
    /\ handler = NoHandler
    /\ InitMore

routerFixed == <<configVars, ttsVars, split, last_index, rag_service, app_initialized,
                 moreVars>>

\* the checks at the top of a handler: the service globals, then  if not query
Validate ==
    /\ handler.pc = "idle"
    /\ \E endpoint \in Endpoints, q \in RouterQueries :
         LET status == IF endpoint = "rag_query_endpoint" /\ ~rag_service THEN 503
                       ELSE IF endpoint = "ai_tts" /\ ~app_initialized THEN 500
                       ELSE IF not_query(q) THEN 400
                       ELSE 0
         IN  handler' = [pc |-> IF status = 0 THEN "validated" ELSE "responded",
                         endpoint |-> endpoint, query |-> q, status |-> status,
                         before |-> Snapshot]
    /\ UNCHANGED <<routerFixed, storeVars, queryVars, _mortgage_kb>>

\* get_mortgage_kb(): construct the instance on first use and load the folder
GetMortgageKb ==
    /\ handler.pc = "validated"
    /\ handler.endpoint = "mortgage_kb_query"
    /\ calls' = << [op |-> "get_mortgage_kb"] >>
    /\ \E outcome \in {"ok", "raise"}, docs_exist \in BOOLEAN :
         IF _mortgage_kb # NoInstance \/ outcome = "ok"
         THEN /\ _mortgage_kb' = IF _mortgage_kb # NoInstance THEN _mortgage_kb ELSE 1
              /\ policy_collection' =
                    IF _mortgage_kb = NoInstance /\ docs_exist
                    THEN load_documents_from_folder(policy_collection, Folder, FALSE, {})
                    ELSE policy_collection
              /\ handler' = [handler EXCEPT !.pc = "kb_ready"]
         ELSE /\ handler' = [handler EXCEPT !.pc = "responded", !.status = 500]
              /\ UNCHANGED <<_mortgage_kb, policy_collection>>
    /\ UNCHANGED <<routerFixed, user_collection, collection,
                   req, context_docs, route, result, raised>>

\* result = kb.query(query, n_results); return result
MortgageKbQuery ==
    /\ handler.pc = "kb_ready"
    /\ \E n_results \in 1..MaxResults,
          store \in StoreOutcomes, web \in WebOutcomes, gen \in GenOutcomes :
         \E uhits \in (IF store = "ok" THEN HitSeqs(user_collection, n_results) ELSE {<<>>}),
            phits \in (IF store = "ok" THEN HitSeqs(policy_collection, n_results) ELSE {<<>>}) :
           LET r == query(handler.query, uhits, phits, TRUE, TRUE, store, web, gen)
           IN  Returned([r EXCEPT !.calls = calls \o r.calls],
                        [svc |-> "kb", question |-> handler.query,
                         search_user_docs |-> TRUE, search_policy_docs |-> TRUE,
                         store |-> store, web |-> web, gen |-> gen,
                         uhits |-> uhits, phits |-> phits])
    /\ handler' = [handler EXCEPT !.pc = "responded", !.status = 200]
    /\ UNCHANGED <<routerFixed, storeVars, _mortgage_kb>>

\* result = rag_service.rag_query(query, n_results); return result
RagQueryEndpoint ==
    /\ handler.pc = "validated"
    /\ handler.endpoint = "rag_query_endpoint"
    /\ \E n_results \in 1..MaxResults,
          store \in {"ok", "documents_raises"}, web \in WebOutcomes, gen \in GenOutcomes :
         \E hits \in (IF store = "ok" THEN HitSeqs(collection, n_results) ELSE {<<>>}) :
           Returned(rag_query(handler.query, hits, store, web, gen),
                    [svc |-> "rag", question |-> handler.query,
                     search_user_docs |-> TRUE, search_policy_docs |-> TRUE,
                     store |-> store, web |-> web, gen |-> gen,
                     uhits |-> hits, phits |-> <<>>])
    /\ handler' = [handler EXCEPT !.pc = "responded", !.status = 200]
    /\ UNCHANGED <<routerFixed, storeVars, _mortgage_kb>>

\* ai_tts after its checks: query_docs, generate_response, text_to_speech
AiTts ==
    /\ handler.pc = "validated"
    /\ handler.endpoint = "ai_tts"
    /\ \E store \in {"ok", "raise"}, found \in BOOLEAN, speech \in {"ok", "raise"} :
         LET q == << [op |-> "query", coll |-> "app"] >>
             g == IF found THEN << [op |-> "generate", context |-> "local", docs |-> <<>>] >>
                  ELSE <<>>
             t == << [op |-> "text_to_speech"] >>
         IN  IF store = "raise"
             THEN /\ calls' = q
                  /\ handler' = [handler EXCEPT !.pc = "responded", !.status = 500]
             ELSE /\ calls' = q \o g \o t
                  /\ handler' = [handler EXCEPT !.pc = "responded",
                                    !.status = IF speech = "ok" THEN 200 ELSE 500]
    /\ UNCHANGED <<routerFixed, storeVars, _mortgage_kb,
                   req, context_docs, route, result, raised>>

\* the response has been sent; the handler's locals are gone
RouterRespond ==
    /\ handler.pc = "responded"
    /\ handler' = NoHandler
    /\ req' = NoReq
    /\ context_docs' = <<>>
    /\ route' = "none"
    /\ calls' = <<>>
    /\ result' = [answer |-> None]
    /\ raised' = FALSE
    /\ UNCHANGED <<routerFixed, storeVars, _mortgage_kb>>

NextRouter ==
    \/ Validate
    \/ GetMortgageKb
    \/ MortgageKbQuery
    \/ RagQueryEndpoint
    \/ AiTts
    \/ RouterRespond

SpecRouter == InitRouter /\ [][NextRouter]_vars

(***************************************************************************)
(* Properties of answer_question (kb.query and rag.rag_query).             *)
(***************************************************************************)
Answered == ~Idle

Made(op) == \E i \in 1..Len(calls) : calls[i].op = op
Generated(kind) ==
    \E i \in 1..Len(calls) : calls[i].op = "generate" /\ calls[i].context = kind

\* the web search was made and returned at least one non-empty snippet
SnippetsReturned ==
    /\ Made("GoogleSearch")
    /\ req.web # "raise"
    /\ NonEmpty(req.web) # <<>>

\* C1: for every question and every combination of collaborator outcomes
\* (store raising, web search raising or empty, Generator raising, keys
\* absent) the query returns a dict whose answer is a non-empty string, and
\* no exception reaches the caller.
C1_AlwaysAnswers ==
    Answered =>
        /\ ~raised
        /\ "answer" \in DOMAIN result
        /\ result.answer \in STRING
        /\ result.answer # ""
        /\ result.answer # None

\* the Generator was called with local context and raised; kb.query still answered
C1_Witness ==
    /\ req.svc = "kb"
    /\ req.gen = "raise"
    /\ Generated("local")
    /\ result.answer = "Error querying: generator unavailable"

\* C2: a DOCUMENT_SPECIFIC question with an empty retrieval bundle reports
\* documents_found = 0, and every Generator call made without retrieved
\* context comes after the web search was attempted.
C2_FallbackOrdering ==
    (Answered /\ classify(req.question) = "DOCUMENT_SPECIFIC" /\ context_docs = <<>>) =>
        /\ "documents_found" \in DOMAIN result
        /\ result.documents_found = 0
        /\ \A i \in 1..Len(calls) :
              (calls[i].op = "generate" /\ calls[i].context = "none")
                  => \E j \in 1..(i - 1) : calls[j].op = "web_search"

\* C3 as claimed: the answer comes from local context exactly when the bundle
\* is non-empty and the question is DOCUMENT_SPECIFIC; a GENERAL question or
\* an empty bundle takes the web-search step.
C3_Routing ==
    (Answered /\ route \in {"local", "web"}) =>
        /\ (route = "local" /\ ~Made("web_search"))
              <=> (context_docs # <<>> /\ classify(req.question) = "DOCUMENT_SPECIFIC")
        /\ (classify(req.question) = "GENERAL" \/ context_docs = <<>>) => route = "web"

\* C3 as amended: rag_query routes on the classification and the bundle;
\* kb.query routes on the bundle alone, whatever the classification.  The
\* local branch never searches the web; the web branch of kb.query enters the
\* web search, that of rag_query enters it when the Generator key is set.
KBRetrievalRaised ==
    \/ req.search_user_docs /\ req.store = "user_raises"
    \/ req.search_policy_docs /\ req.store = "policy_raises"

C3_RoutingByService ==
    /\ (Answered /\ req.svc = "rag") =>
          /\ route = "local"
                <=> (context_docs # <<>> /\ classify(req.question) = "DOCUMENT_SPECIFIC")
          /\ route = "web"
                <=> (context_docs = <<>> \/ classify(req.question) = "GENERAL")
          /\ route = "local" => ~Made("web_search")
          /\ route = "web" => (Made("web_search") <=> GEMINI_API_KEY)
    /\ (Answered /\ req.svc = "kb") =>
          /\ route = "error" <=> (KBRetrievalRaised)
          /\ ~KBRetrievalRaised =>
                /\ route = "local" <=> context_docs # <<>>
                /\ route = "web" <=> context_docs = <<>>
                /\ route = "local" => ~Made("web_search")
                /\ route = "web" => Made("web_search")

\* kb.query answered a GENERAL question from its non-empty bundle
C3_Witness ==
    /\ req.svc = "kb"
    /\ classify(req.question) = "GENERAL"
    /\ context_docs # <<>>
    /\ route = "local"
    /\ Generated("local")
    /\ ~Made("web_search")

\* C4: with no local context and no usable web snippet (the Generator being
\* configured and answering), the Generator is called without context and
\* its text is the answer.
C4_UnscopedGeneration ==
    (/\ Answered
     /\ route = "web"
     /\ context_docs = <<>>
     /\ ~SnippetsReturned
     /\ GEMINI_API_KEY
     /\ req.gen = "ok") =>
        /\ Generated("none")
        /\ result.answer = GenText("none")

\* C5: with no local context and at least one non-empty snippet returned by
\* the web search, the snippets are the context of the generation and the
\* result has documents_found = 0 and web_search_used = TRUE.
C5_WebSnippets ==
    (Answered /\ route = "web" /\ context_docs = <<>> /\ SnippetsReturned) =>
        /\ \E i \in 1..Len(calls) :
              /\ calls[i].op = "generate"
              /\ calls[i].context = "web"
              /\ calls[i].docs = NonEmpty(req.web)
        /\ "documents_found" \in DOMAIN result
        /\ result.documents_found = 0
        /\ "web_search_used" \in DOMAIN result
        /\ result.web_search_used = TRUE

\* C6: every returned dict has the fields answer, sources, documents_found
\* and web_search_used.
C6_FourFields ==
    Answered =>
        {"answer", "sources", "documents_found", "web_search_used"} \subseteq DOMAIN result

(***************************************************************************)
(* The classifier.                                                         *)
(***************************************************************************)
\* whether the lower-cased question contains one of the keywords
KeywordHit == [q \in Questions |->
                 \E keyword \in general_keywords : Contains(lower(q), keyword)]

\* C7 as claimed: the rate question is GENERAL, the statement question is
\* DOCUMENT_SPECIFIC, and a question is GENERAL exactly when its lower-cased
\* text contains a keyword.
C7_Classifier ==
    (Answered /\ req.svc = "rag") =>
        /\ req.question = "What is the current average mortgage rate?"
              => classify(req.question) = "GENERAL"
        /\ req.question = "What is the loan amount on page 3 of my statement?"
              => classify(req.question) = "DOCUMENT_SPECIFIC"
        /\ classify(req.question) = "GENERAL" <=> KeywordHit[req.question]

\* C7 as amended: both questions are GENERAL (the second contains the keyword
\* "what is"); a question is GENERAL exactly when its lower-cased text
\* contains a keyword, DOCUMENT_SPECIFIC otherwise; rag_query acts on that
\* label: with a non-empty bundle it takes the web branch iff GENERAL.
C7_ClassifierByKeywords ==
    (Answered /\ req.svc = "rag") =>
        /\ req.question = "What is the current average mortgage rate?"
              => classify(req.question) = "GENERAL"
        /\ req.question = "What is the loan amount on page 3 of my statement?"
              => classify(req.question) = "GENERAL"
        /\ req.question = "Who signed my loan agreement?"
              => classify(req.question) = "DOCUMENT_SPECIFIC"
        /\ req.question = "List the GUIDELINES in my file"
              => classify(req.question) = "GENERAL"
        /\ classify(req.question) \in {"GENERAL", "DOCUMENT_SPECIFIC"}
        /\ classify(req.question) = "GENERAL" <=> KeywordHit[req.question]
        /\ context_docs # <<>> => (route = "web" <=> KeywordHit[req.question])

\* rag_query had chunks for the statement question and still took the web
\* branch, the question being GENERAL
C7_Witness ==
    /\ req.svc = "rag"
    /\ req.question = "What is the loan amount on page 3 of my statement?"
    /\ context_docs # <<>>
    /\ route = "web"

(***************************************************************************)
(* Properties of synthesize_cached (text_to_speech).                       *)
(***************************************************************************)
TtsConfigured == ELEVENLABS_AVAILABLE /\ ELEVENLABS_API_KEY
Finished(c)   == tts[c].pc = "done"

\* the producer calls made for the texts that share text's md5 prefix, with voice_id
RECURSIVE SumCalls(_, _)
SumCalls(pairs, n) ==
    IF pairs = {} THEN n
    ELSE LET p == CHOOSE q \in pairs : TRUE
         IN  SumCalls(pairs \ {p}, n + producer_calls[p])

CallsForKey(text, voice_id) ==
    SumCalls({p \in TtsTexts \X Voices : md5_16(p[1]) = md5_16(text) /\ p[2] = voice_id}, 0)

\* C8 as claimed: in a run of sequential calls whose producer succeeds, when
\* a call for (text, voice) has finished the producer has been invoked exactly
\* once for that pair, and the call returns that pair's audio.
C8_OncePerPair ==
    \A c \in Callers :
        (Finished(c) /\ TtsConfigured /\ ~tts_failed) =>
            /\ producer_calls[<<tts[c].text, tts[c].voice_id>>] = 1
            /\ tts[c].ret = Bytes(Audio(tts[c].text, tts[c].voice_id))

\* C8 as amended: the producer is invoked exactly once per distinct cache key
\* (16-hex-digit md5 prefix of the text, voice): when a call has finished,
\* exactly one producer call has been made for the texts sharing its prefix
\* with its voice, at most one for its own pair; a call that finds the file
\* does not invoke the producer and returns the stored payload; the same text
\* with another voice has a key of its own.
C8_OncePerKey ==
    \A c \in Callers :
        (Finished(c) /\ TtsConfigured /\ ~tts_failed) =>
            /\ CallsForKey(tts[c].text, tts[c].voice_id) = 1
            /\ producer_calls[<<tts[c].text, tts[c].voice_id>>] <= 1
            /\ tts[c].hit => ~tts[c].produced
            /\ ~tts[c].hit => tts[c].produced
            /\ tts[c].ret = Bytes(audio_cache[cache_file(tts[c].text, tts[c].voice_id)])
            /\ \E t \in TtsTexts :
                  /\ md5_16(t) = md5_16(tts[c].text)
                  /\ producer_calls[<<t, tts[c].voice_id>>] = 1
                  /\ tts[c].ret = Bytes(Audio(t, tts[c].voice_id))

\* "hello" was synthesized once with v1 and once with v2, and a second call
\* with v1 has returned the stored payload without invoking the producer
C8_Witness ==
    /\ TtsConfigured /\ ~tts_failed
    /\ producer_calls[<<"hello", "v1">>] = 1
    /\ producer_calls[<<"hello", "v2">>] = 1
    /\ \E c \in Callers :
          /\ Finished(c)
          /\ tts[c].text = "hello" /\ tts[c].voice_id = "v1"
          /\ tts[c].hit /\ ~tts[c].produced
          /\ tts[c].ret = Bytes(Audio("hello", "v1"))

\* C9: under concurrent calls, with no producer or file error, every call
\* returns a complete producer output for its key, and once no call is
\* running every stored entry holds a complete producer output.
CompleteFor(file) ==
    {Audio(p[1], p[2]) : p \in {q \in TtsTexts \X Voices : cache_file(q[1], q[2]) = file}}

C9_CompletePayload ==
    (TtsConfigured /\ ~tts_failed) =>
        /\ \A c \in Callers :
              Finished(c) =>
                  /\ tts[c].ret.kind = "bytes"
                  /\ tts[c].ret.bytes \in CompleteFor(cache_file(tts[c].text, tts[c].voice_id))
        /\ NoCallRunning =>
              \A file \in DOMAIN audio_cache : audio_cache[file] \in CompleteFor(file)

\* C10: once a complete payload is stored under a key, no later step changes
\* the bytes stored under that key.
C10_NeverMutated ==
    [][\A file \in DOMAIN audio_cache :
          audio_cache[file] \in CompleteFor(file)
              => /\ file \in DOMAIN audio_cache'
                 /\ audio_cache'[file] = audio_cache[file]]_vars

(***************************************************************************)
(* Properties of the chunkers.                                             *)
(***************************************************************************)
SplitDone(fn) == split.fn = fn /\ split.pc = "done"

\* C11: for a text of length L > 0 chunked with chunk_size 1000 and overlap
\* 200, the starts are 0, 800, 1600, ...; chunk i is text[start_i : start_i +
\* 1000]; a full window shares exactly 200 characters with its successor; the
\* last chunk ends at L; the chunks leave no gap, so every character of the
\* text is in some chunk.
C11_ChunkCoverage ==
    (/\ SplitDone("_split_text")
     /\ split.chunk_size = 1000 /\ split.chunk_overlap = 200
     /\ split.text.len > 0) =>
        LET L == split.text.len
            n == Len(split.chunks)
        IN  /\ n >= 1
            /\ Len(split.starts) = n
            /\ \A i \in 1..n : split.starts[i] = 800 * (i - 1)
            /\ \A i \in 1..n :
                  split.chunks[i] = <<split.text.tid, split.starts[i],
                                     Min(split.starts[i] + 1000, L)>>
            /\ \A i \in 1..(n - 1) :
                  (split.chunks[i][3] - split.chunks[i][2] = 1000)
                      => split.chunks[i][3] - split.chunks[i + 1][2] = 200
            /\ split.starts[n] + 1000 >= L
            /\ split.chunks[n][3] = L
            /\ split.chunks[1][2] = 0
            /\ \A i \in 1..(n - 1) : split.chunks[i + 1][2] <= split.chunks[i][3]
            /\ split.chunks = _split_text(split.text, ChunkSize, ChunkOverlap)

\* a text of 1601 characters was chunked into three chunks starting at 0, 800, 1600
C11_Witness ==
    /\ SplitDone("_split_text")
    /\ split.chunk_size = 1000 /\ split.chunk_overlap = 200
    /\ split.text.len = 1601
    /\ split.starts = <<0, 800, 1600>>

\* C12: a text shorter than chunk_size (length 0 included, and lengths above
\* chunk_size - overlap) yields exactly one chunk, equal to the whole text.
C12_ShortText ==
    /\ (SplitDone("_split_text") /\ split.text.len < split.chunk_size) =>
          split.chunks = << <<split.text.tid, 0, split.text.len>> >>
    /\ (SplitDone("split_text_into_chunks") /\ Len(split.text.chars) < split.chunk_size) =>
          split.chunks = <<split.text.chars>>

\* C13: on every loop iteration of either chunker the window start strictly
\* increases and is never negative.
C13_StartIncreases ==
    [][Len(split'.starts) > Len(split.starts) =>
          /\ split'.start > split.start
          /\ split'.start >= 0]_vars

(***************************************************************************)
(* Properties of indexing.                                                 *)
(***************************************************************************)
IsAdd == last_index.op \in {"add_user_document", "add_document"}

\* the collection the last add call wrote to
IndexedColl ==
    IF last_index.op = "add_user_document" THEN user_collection ELSE collection

ChunksOfDoc(coll, document_id) == {c \in coll : c.meta.document_id = document_id}

\* the records the last add call builds from its text, by position
ExpectedRec(i) ==
    LET chunks == _split_text(last_index.text, ChunkSize, ChunkOverlap)
    IN  IF last_index.op = "add_user_document"
        THEN UserChunk(last_index.document_id, FileName(last_index.document_id), chunks, i)
        ELSE RagChunk(last_index.document_id, chunks, i)

ExpectedRecs == {ExpectedRec(i) : i \in 1..NumChunks(last_index.text)}

\* the last two calls are the same add call with the same id and text, both successful
Repeated ==
    /\ IsAdd
    /\ last_index.ok
    /\ last_index.prev.op = last_index.op
    /\ last_index.prev.document_id = last_index.document_id
    /\ last_index.prev.text = last_index.text
    /\ last_index.prev.ok

\* C14: when add_user_document / add_document is called a second time with
\* the same document id and identical text, the chunk ids of the document are
\* the same after both calls (document id, "chunk", ordinal 0..n-1, with the
\* prefix "user" in the user collection), no id is stored twice, and the
\* collection and its count() are what they were after the first call.
C14_IdempotentIndexing ==
    Repeated =>
        LET id == last_index.document_id
            n  == NumChunks(last_index.text)
        IN  /\ IndexedColl = last_index.before
            /\ count(IndexedColl) = count(last_index.before)
            /\ {c.id : c \in ChunksOfDoc(IndexedColl, id)}
                  = {c.id : c \in ChunksOfDoc(last_index.before, id)}
            /\ ExpectedRecs \subseteq IndexedColl
            /\ {c.id : c \in ExpectedRecs}
                  = {IF last_index.op = "add_user_document"
                     THEN <<"user", id, "chunk", i>> ELSE <<id, "chunk", i>> : i \in 0..(n - 1)}
            /\ \A c, d \in IndexedColl : c.id = d.id => c = d

\* a text of two chunks was indexed twice under one id; the collection holds two chunks
C14_Witness ==
    /\ Repeated
    /\ NumChunks(last_index.text) = 2
    /\ count(IndexedColl) = 2
    /\ last_index.n = 2

\* C15: after a successful add call for a document id, the collection holds
\* for that id exactly the chunks of the text just indexed.
C15_ReplacedWholesale ==
    (IsAdd /\ last_index.ok) =>
        ChunksOfDoc(IndexedColl, last_index.document_id) = ExpectedRecs

\* C18: when the embedding or upsert of one chunk fails, every other chunk of
\* the document (or of the folder) is stored all the same.
C18_PartialFailure ==
    /\ (IsAdd /\ last_index.failAt <= NumChunks(last_index.text)) =>
          \A j \in 1..NumChunks(last_index.text) :
              j # last_index.failAt => ExpectedRec(j) \in IndexedColl
    /\ (last_index.op = "load_documents_from_folder" /\ last_index.ok) =>
          \A c \in load_documents_from_folder({}, Folder, FALSE, {}) :
              c.id \notin last_index.failing => c \in policy_collection

(***************************************************************************)
(* Properties of the retriever of kb.query.                                *)
(***************************************************************************)
Queried(coll) == \E i \in 1..Len(calls) : calls[i].op = "query" /\ calls[i].coll = coll
FromUser(hit) == "source" \in DOMAIN hit.meta /\ hit.meta.source = "user_upload"
FromPolicy(hit) == "pdf_name" \in DOMAIN hit.meta

\* C16: kb.query issues a nearest-neighbour query against a collection only
\* if that collection was requested and its count() is above zero; a
\* collection that is skipped contributes no hit and causes no error, and the
\* other collection, when requested and non-empty, is still queried.
C16_SkipEmpty ==
    (Answered /\ req.svc = "kb") =>
        /\ Queried("user") => (req.search_user_docs /\ count(user_collection) > 0)
        /\ Queried("policy") => (req.search_policy_docs /\ count(policy_collection) > 0)
        /\ ~Queried("user") => \A i \in 1..Len(context_docs) : ~FromUser(context_docs[i])
        /\ ~Queried("policy") => \A i \in 1..Len(context_docs) : ~FromPolicy(context_docs[i])
        /\ ~raised
        /\ req.store = "ok" =>
              /\ route \in {"local", "web"}
              /\ (req.search_user_docs /\ count(user_collection) > 0) => Queried("user")
              /\ (req.search_policy_docs /\ count(policy_collection) > 0) => Queried("policy")

\* both collections were requested, the user collection was empty and was
\* skipped, the policy collection was queried and gave the bundle
C16_Witness ==
    /\ req.svc = "kb"
    /\ req.search_user_docs /\ req.search_policy_docs
    /\ count(user_collection) = 0
    /\ ~Queried("user")
    /\ Queried("policy")
    /\ context_docs # <<>>
    /\ route = "local"

\* the result was built from the bundle: the key is set and the Generator
\* answered, or the key is missing
BundleReported ==
    /\ req.svc = "kb"
    /\ route = "local"
    /\ ~GEMINI_API_KEY \/ req.gen = "ok"

\* C17: the bundle of kb.query is the user hits followed by the policy hits,
\* each group in the order the store returned it; the result has one
\* provenance entry per hit, at the same position, tagged with the type of
\* the collection the hit came from; the context given to the Generator is
\* the hit texts in that order; documents_found is the number of entries of
\* sources.
C17_MergedBundle ==
    (Answered /\ req.svc = "kb") =>
        /\ ~KBRetrievalRaised => context_docs = req.uhits \o req.phits
        /\ result.documents_found = Len(result.sources)
        /\ BundleReported =>
              /\ Len(result.sources) = Len(context_docs)
              /\ result.documents_found = Len(context_docs)
              /\ \A i \in 1..Len(context_docs) :
                    IF i <= Len(req.uhits)
                    THEN /\ FromUser(context_docs[i])
                         /\ result.sources[i].type = "user_document"
                         /\ result.sources[i].document_id = context_docs[i].meta.document_id
                         /\ result.sources[i].chunk[1] = context_docs[i].meta.chunk_index + 1
                    ELSE /\ FromPolicy(context_docs[i])
                         /\ result.sources[i].type = "policy_document"
                         /\ result.sources[i].pdf_name = context_docs[i].meta.pdf_name
                         /\ result.sources[i].page = context_docs[i].meta.page_number
              /\ \A i \in 1..Len(calls) :
                    calls[i].op = "generate" =>
                        calls[i].docs = [j \in 1..Len(context_docs) |-> context_docs[j].text]

\* a bundle of user hits followed by policy hits, whose user hits the store
\* returned with the later chunk first
C17_Witness ==
    /\ BundleReported
    /\ Len(req.uhits) = 2
    /\ Len(req.phits) >= 1
    /\ req.uhits[1].meta.chunk_index > req.uhits[2].meta.chunk_index
    /\ Len(result.sources) = Len(req.uhits) + Len(req.phits)
    /\ result.sources[1].type = "user_document"
    /\ result.sources[Len(result.sources)].type = "policy_document"

(***************************************************************************)
(* Missing configuration.                                                  *)
(***************************************************************************)
\* C20: with the Generator key absent (and retrieval not failing), every path
\* returns without a Generator call and without raising, and the answer says
\* that the API key is not configured.
C20_KeyMissing ==
    (Answered /\ ~GEMINI_API_KEY /\ ~KBRetrievalRaised) =>
        /\ ~Made("generate")
        /\ ~raised
        /\ Contains(result.answer, "API key")
        /\ Contains(result.answer, "not configured")

(***************************************************************************)
(* Malformed input.                                                        *)
(***************************************************************************)
\* C19: a request whose question is missing or empty is answered with an
\* error status by the handler's checks: no collaborator has been called
\* (no store query, web search, Generator or speech call, no construction of
\* the knowledge base), no query has run, and the stores and the global
\* instance are as the request found them.
C19_MalformedRejected ==
    (handler.pc # "idle" /\ (handler.query = Missing \/ handler.query = "")) =>
        /\ handler.pc = "responded"
        /\ handler.status \in {400, 500, 503}
        /\ handler.status = 400
              <=> ~(\/ handler.endpoint = "rag_query_endpoint" /\ ~rag_service
                    \/ handler.endpoint = "ai_tts" /\ ~app_initialized)
        /\ calls = <<>>
        /\ ~Answered
        /\ Snapshot = handler.before

\* mortgage_kb_query rejected an empty question with 400 before the
\* knowledge base was ever constructed, the user collection being non-empty
C19_Witness ==
    /\ handler.pc = "responded"
    /\ handler.endpoint = "mortgage_kb_query"
    /\ handler.query = ""
    /\ handler.status = 400
    /\ _mortgage_kb = NoInstance
    /\ calls = <<>>
    /\ count(user_collection) > 0

(***************************************************************************)
(* Building the prompt context, one call at a time.                        *)
(***************************************************************************)
InitIdle ==
    /\ GEMINI_API_KEY = TRUE
    /\ SERPAPI_API_KEY = TRUE
    /\ SERPAPI_AVAILABLE = TRUE
    /\ user_collection = {}
    /\ policy_collection = {}
    /\ collection = {}
    /\ req = NoReq
    /\ context_docs = <<>>
    /\ route = "none"
    /\ calls = <<>>
    /\ result = [answer |-> None]
    /\ raised = FALSE
    /\ ELEVENLABS_API_KEY = TRUE
    /\ ELEVENLABS_AVAILABLE = TRUE
    /\ audio_cache = <<>>
    /\ producer_calls = [p \in TtsTexts \X Voices |-> 0]
    /\ tts = [c \in Callers |-> IdleCaller]
    /\ tts_calls = 0
    /\ tts_failed = FALSE
    /\ split = NoSplit
    /\ last_index = NoIndex
    /\ _mortgage_kb = NoInstance
    /\ rag_service = TRUE
    /\ app_initialized = TRUE
    /\ handler = NoHandler
    /\ InitMore

oldVars == <<configVars, storeVars, queryVars, ttsVars,
             split, last_index, _mortgage_kb, rag_service, app_initialized, handler>>

\* no function call is in progress
NoCall == prompt_frame.pc = "idle" /\ embed_frame.pc = "idle" /\ load_frame.pc = "idle"

\* RAGSystem.generate_response_with_context(query, context_docs, max_context_length)
GenerateResponseWithContext ==
    /\ NoCall
    /\ \E docs \in ContextDocs, max_context_length \in 1..MaxContextLength,
          gen \in GenOutcomes :
          prompt_frame' =
              [fn |-> "generate_response_with_context",
               context_docs |-> docs,
               max_context_length |-> max_context_length,
               full |-> join(" ", docs),
               context |-> truncated_context(docs, max_context_length),
               response |-> IF gen = "ok" THEN GenText("local")
                            ELSE "Error generating response",
               pc |-> "done"]
    /\ UNCHANGED <<oldVars, embed_frame, load_frame, getterVars, indexerVars, extraction>>

\* kb.query from the point where the bundle is not empty: the context is every
\* hit of the bundle joined by a blank line, whatever the length; then the
\* prompt and the Generator.  max_context_length is the budget the service is
\* configured with; kb.query does not read it.
QueryPrompt ==
    /\ NoCall
    /\ \E docs \in ContextDocs \ {<<>>}, max_context_length \in 1..MaxContextLength,
          gen \in GenOutcomes :
          prompt_frame' =
              [fn |-> "query",
               context_docs |-> docs,
               max_context_length |-> max_context_length,
               full |-> join("\n\n", docs),
               context |-> join("\n\n", docs),
               response |-> IF gen = "ok" THEN GenText("local")
                            ELSE "Error querying",
               pc |-> "done"]
    /\ UNCHANGED <<oldVars, embed_frame, load_frame, getterVars, indexerVars, extraction>>

\* EmbeddingFunction.__call__(input) of backend/rag_service.py: each text is
\* encoded on its own, a failed one becomes [0.0] * 384
EmbeddingCall ==
    /\ NoCall
    /\ \E input \in EncodeOutcomes :
          embed_frame' =
              [fn |-> "rag_service.__call__", input |-> input, pc |-> "done",
               raised |-> FALSE,
               embeddings |->
                   [i \in 1..Len(input) |->
                       IF input[i] = "ok"
                       THEN [dimension |-> EmbeddingDimension, zero |-> FALSE]
                       ELSE [dimension |-> EmbeddingDimension, zero |-> TRUE]]]
    /\ UNCHANGED <<oldVars, prompt_frame, load_frame, getterVars, indexerVars, extraction>>

\* EmbeddingFunction.__call__(input) of RAG/app.py: the same loop, a failed text
\* becomes [0.0] * 768
EmbeddingCallRAG ==
    /\ NoCall
    /\ \E input \in EncodeOutcomes :
          embed_frame' =
              [fn |-> "RAG/app.__call__", input |-> input, pc |-> "done",
               raised |-> FALSE,
               embeddings |->
                   [i \in 1..Len(input) |->
                       IF input[i] = "ok"
                       THEN [dimension |-> EmbeddingDimension, zero |-> FALSE]
                       ELSE [dimension |-> FallbackDimensionRAG, zero |-> TRUE]]]
    /\ UNCHANGED <<oldVars, prompt_frame, load_frame, getterVars, indexerVars, extraction>>

\* EmbeddingFunction.embed_documents(input_text) of app.py: one try around the
\* whole list, so one failed text makes every vector [0.0] * embedding_dimension
EmbedDocuments ==
    /\ NoCall
    /\ \E input \in EncodeOutcomes :
          embed_frame' =
              [fn |-> "app.embed_documents", input |-> input, pc |-> "done",
               raised |-> FALSE,
               embeddings |->
                   IF \A i \in 1..Len(input) : input[i] = "ok"
                   THEN [i \in 1..Len(input) |->
                            [dimension |-> EmbeddingDimension, zero |-> FALSE]]
                   ELSE [i \in 1..Len(input) |->
                            [dimension |-> EmbeddingDimension, zero |-> TRUE]]]
    /\ UNCHANGED <<oldVars, prompt_frame, load_frame, getterVars, indexerVars, extraction>>

\* load_documents_from_folder(folder_path) on a knowledge base whose policy
\* collection is empty; failing: the ids whose upsert raises
LoadFolder ==
    /\ NoCall
    /\ \E folder \in {Folder, FolderSharedName},
          failing \in {{}, {<<"guide", "page", 1, "chunk", 1>>}} :
          load_frame' =
              [pc |-> "done", folder |-> folder, failing |-> failing,
               coll |-> load_documents_from_folder({}, folder, FALSE, failing),
               chunk_count |->
                   Len(Upserted(PolicyRecs(LoadedPages(folder, 1), 1), failing))]
    /\ UNCHANGED <<oldVars, prompt_frame, embed_frame, getterVars, indexerVars, extraction>>

\* the call returns to its caller
CallReturn ==
    /\ ~NoCall
    /\ prompt_frame' = NoPrompt
    /\ embed_frame' = NoEmbed
    /\ load_frame' = NoLoad
    /\ UNCHANGED <<oldVars, getterVars, indexerVars, extraction>>

NextFunctions ==
    \/ GenerateResponseWithContext
    \/ QueryPrompt
    \/ EmbeddingCall
    \/ EmbeddingCallRAG
    \/ EmbedDocuments
    \/ LoadFolder
    \/ CallReturn
SpecFunctions == InitIdle /\ [][NextFunctions]_vars

PromptBuilt == prompt_frame.pc = "done"
OverBudget == Len(prompt_frame.full) > prompt_frame.max_context_length

\* C21: the context placed in the prompt is the whole concatenated context when
\* that is within the configured maximum, and otherwise its first
\* max_context_length characters followed by the marker "...".
C21_Truncation ==
    PromptBuilt =>
        prompt_frame.context =
            IF OverBudget
            THEN prefix(prompt_frame.full, prompt_frame.max_context_length) \o "..."
            ELSE prompt_frame.full

\* the same for generate_response_with_context alone, which does truncate
C21_TruncationInRagUtils ==
    prompt_frame.fn = "generate_response_with_context" => C21_Truncation

\* a bundle over the budget reached the prompt of kb.query
C21_OverBudgetInQuery ==
    PromptBuilt /\ prompt_frame.fn = "query" /\ OverBudget

Embedded == embed_frame.pc = "done"

\* C22: an embedding call never raises and returns one vector per input text,
\* every vector of the model's dimension, the zero vector exactly for the texts
\* whose encoding failed.
C22_EmbeddingFallback ==
    Embedded =>
        /\ ~embed_frame.raised
        /\ Len(embed_frame.embeddings) = Len(embed_frame.input)
        /\ \A i \in 1..Len(embed_frame.input) :
              /\ embed_frame.embeddings[i].dimension = EmbeddingDimension
              /\ embed_frame.embeddings[i].zero <=> embed_frame.input[i] = "raise"

\* the same for the embedding function of backend/rag_service.py alone
C22_EmbeddingFallbackInRagService ==
    embed_frame.fn = "rag_service.__call__" => C22_EmbeddingFallback

\* a call with one text that failed and one that did not has returned
C22_MixedInput ==
    /\ Embedded
    /\ \E i, j \in 1..Len(embed_frame.input) :
          embed_frame.input[i] = "raise" /\ embed_frame.input[j] = "ok"

\* the number of calls of one collaborator operation in the last query
CallCount(op) == Cardinality({i \in 1..Len(calls) : calls[i].op = op})

\* a collection query of the last query raised
RetrievalRaised ==
    \/ req.svc = "kb" /\ KBRetrievalRaised
    \/ req.svc = "rag" /\ req.store # "ok"

\* C23: within one query the web search is called at most once and the
\* Generator at most once, whatever succeeds or fails, and a query whose
\* retrieval failed goes on to the next step of the chain instead of ending
\* with the error.
C23_NoRetryNoAbort ==
    Answered =>
        /\ CallCount("GoogleSearch") <= 1
        /\ CallCount("generate") <= 1
        /\ RetrievalRaised => route # "error"

\* the first half alone: no collaborator is called twice in one query
C23_AtMostOnce ==
    Answered => CallCount("GoogleSearch") <= 1 /\ CallCount("generate") <= 1

\* a kb.query whose user-collection query raised has answered
C23_RetrievalFailedInQuery ==
    Answered /\ req.svc = "kb" /\ KBRetrievalRaised /\ route = "error"

(***************************************************************************)
(* get_mortgage_kb and get_rag_service, statement by statement, called by  *)
(* callers that may run at the same time.                                  *)
(***************************************************************************)
getterFixed == <<configVars, user_collection, collection, queryVars, ttsVars,
                 split, last_index, rag_service, app_initialized, handler,
                 prompt_frame, embed_frame, load_frame, indexerVars, extraction>>

\* the global an accessor reads and writes
Global(fn) == IF fn = "get_mortgage_kb" THEN _mortgage_kb ELSE _rag_service

\* if _mortgage_kb is None:   (if _rag_service is None:)
GetterEnter(c, fn) ==
    /\ getters[c].pc = "idle"
    /\ getters' = [getters EXCEPT ![c] =
                      [fn |-> fn, ret |-> NoInstance,
                       pc |-> IF Global(fn) = NoInstance THEN "construct" ELSE "return"]]
    /\ UNCHANGED <<_mortgage_kb, _rag_service, constructed, policy_loads,
                   policy_collection, getterFixed>>

\* _mortgage_kb = MortgageKnowledgeBase()   (_rag_service = RAGDocumentService());
\* a constructor that raises leaves the global as it is
GetterConstruct(c, outcome, docs_exist) ==
    LET fn == getters[c].fn
        n  == constructed[fn] + 1
    IN
    /\ getters[c].pc = "construct"
    /\ IF outcome = "raise"
       THEN /\ getters' = [getters EXCEPT ![c].pc = "idle"]
            /\ UNCHANGED <<_mortgage_kb, _rag_service, constructed>>
       ELSE /\ constructed' = [constructed EXCEPT ![fn] = n]
            /\ _mortgage_kb' = IF fn = "get_mortgage_kb" THEN n ELSE _mortgage_kb
            /\ _rag_service' = IF fn = "get_rag_service" THEN n ELSE _rag_service
            /\ getters' = [getters EXCEPT ![c].pc =
                              IF fn = "get_mortgage_kb" /\ docs_exist
                              THEN "load" ELSE "return"]
    /\ UNCHANGED <<policy_loads, policy_collection, getterFixed>>

\* load_documents_from_folder(docs_path), its test
\*   if self.policy_collection.count() > 0 and not force_reload: return
GetterLoadCheck(c) ==
    /\ getters[c].pc = "load"
    /\ getters' = [getters EXCEPT ![c].pc =
                      IF count(policy_collection) > 0 THEN "return" ELSE "loading"]
    /\ UNCHANGED <<_mortgage_kb, _rag_service, constructed, policy_loads,
                   policy_collection, getterFixed>>

\* load_documents_from_folder(docs_path), the walk and the chunk loop
GetterLoad(c) ==
    /\ getters[c].pc = "loading"
    /\ policy_collection' = LoadChunks(policy_collection, LoadedPages(Folder, 1), 1, {})
    /\ policy_loads' = policy_loads + 1
    /\ getters' = [getters EXCEPT ![c].pc = "return"]
    /\ UNCHANGED <<_mortgage_kb, _rag_service, constructed, getterFixed>>

\* return _mortgage_kb   (return _rag_service): the global is read again
GetterReturn(c) ==
    /\ getters[c].pc = "return"
    /\ getters' = [getters EXCEPT ![c].pc = "idle", ![c].ret = Global(getters[c].fn)]
    /\ UNCHANGED <<_mortgage_kb, _rag_service, constructed, policy_loads,
                   policy_collection, getterFixed>>

NextGetters ==
    \/ \E c \in Callers, fn \in Accessors : GetterEnter(c, fn)
    \/ \E c \in Callers, outcome \in {"ok", "raise"}, docs_exist \in BOOLEAN :
          GetterConstruct(c, outcome, docs_exist)
    \/ \E c \in Callers : GetterLoadCheck(c)
    \/ \E c \in Callers : GetterLoad(c)
    \/ \E c \in Callers : GetterReturn(c)
SpecGetters == InitIdle /\ [][NextGetters]_vars

\* C24: however first calls of get_mortgage_kb (or get_rag_service) interleave,
\* the service is constructed at most once, the policy folder is indexed at
\* most once, and all callers that were handed an instance were handed the
\* same one.
C24_InitializeOnce ==
    /\ \A fn \in Accessors : constructed[fn] <= 1
    /\ policy_loads <= 1
    /\ \A c, d \in Callers :
          (/\ getters[c].fn = getters[d].fn
           /\ getters[c].ret # NoInstance
           /\ getters[d].ret # NoInstance) => getters[c].ret = getters[d].ret

\* two callers of get_mortgage_kb have both found the global to be None
C24_RacingFirstCalls ==
    \E c, d \in Callers :
        /\ c # d
        /\ getters[c].fn = "get_mortgage_kb" /\ getters[c].pc = "construct"
        /\ getters[d].fn = "get_mortgage_kb" /\ getters[d].pc = "construct"

(***************************************************************************)
(* kb.query while an indexing call is in progress.  The indexing call is   *)
(* followed upsert by upsert; a query runs between two of its steps.       *)
(***************************************************************************)
indexerFixed == <<configVars, collection, ttsVars, split, last_index, _mortgage_kb,
                  rag_service, app_initialized, handler, prompt_frame, embed_frame,
                  getterVars, extraction, load_frame>>

\* add_user_document(document_id, text, filename) is called: the text is split
StartAddUserDocument ==
    /\ indexer.pc = "idle"
    /\ \E document_id \in DocIds, text \in IndexedTexts :
          LET chunks == _split_text(text, ChunkSize, ChunkOverlap)
          IN  indexer' = [op |-> "add_user_document", pc |-> "upsert",
                          todo |-> [i \in 1..Len(chunks) |->
                                      UserChunk(document_id, FileName(document_id),
                                                chunks, i)]]
    /\ UNCHANGED <<storeVars, queryVars, policy_deleted, indexerFixed>>

\* load_documents_from_folder(folder_path, force_reload=True) is called
StartForceReload ==
    /\ indexer.pc = "idle"
    /\ indexer' = [op |-> "load_documents_from_folder", pc |-> "delete", todo |-> <<>>]
    /\ UNCHANGED <<storeVars, queryVars, policy_deleted, indexerFixed>>

\* self.chroma_client.delete_collection(name="Mortgages_Collection")
ReloadDelete ==
    /\ indexer.pc = "delete"
    /\ policy_collection' = {}
    /\ policy_deleted' = TRUE
    /\ indexer' = [indexer EXCEPT !.pc = "create"]
    /\ UNCHANGED <<user_collection, collection, queryVars, indexerFixed>>

\* self.policy_collection = self.chroma_client.create_collection(...), then the
\* walk over the folder
ReloadCreate ==
    /\ indexer.pc = "create"
    /\ policy_deleted' = FALSE
    /\ indexer' = [indexer EXCEPT !.pc = "upsert",
                                  !.todo = PolicyRecs(LoadedPages(Folder, 1), 1)]
    /\ UNCHANGED <<storeVars, queryVars, indexerFixed>>

\* one turn of the chunk loop: upsert of the next chunk
IndexerUpsert ==
    /\ indexer.pc = "upsert"
    /\ indexer.todo # <<>>
    /\ IF indexer.op = "add_user_document"
       THEN /\ user_collection' = upsert(user_collection, Head(indexer.todo))
            /\ UNCHANGED policy_collection
       ELSE /\ policy_collection' = upsert(policy_collection, Head(indexer.todo))
            /\ UNCHANGED user_collection
    /\ indexer' = [indexer EXCEPT !.todo = Tail(indexer.todo)]
    /\ UNCHANGED <<collection, queryVars, policy_deleted, indexerFixed>>

\* the loop is over, the indexing call returns
IndexerReturn ==
    /\ indexer.pc = "upsert"
    /\ indexer.todo = <<>>
    /\ indexer' = NoIndexer
    /\ UNCHANGED <<storeVars, queryVars, policy_deleted, indexerFixed>>

\* kb.query(question, n_results, search_user_docs, search_policy_docs) between
\* two steps of the indexing call.  A deleted Mortgages_Collection makes
\* self.policy_collection.count() raise.
QueryDuringIndexing ==
    /\ Idle
    /\ \E question \in Questions, n_results \in 1..MaxResults,
          search_user_docs \in BOOLEAN, search_policy_docs \in BOOLEAN,
          web \in WebOutcomes, gen \in GenOutcomes :
         LET store == IF policy_deleted THEN "policy_raises" ELSE "ok"
         IN
         \E uhits \in (IF search_user_docs
                       THEN HitSeqs(user_collection, n_results) ELSE {<<>>}),
            phits \in (IF search_policy_docs /\ store = "ok"
                       THEN HitSeqs(policy_collection, n_results) ELSE {<<>>}) :
           Returned(query(question, uhits, phits, search_user_docs, search_policy_docs,
                          store, web, gen),
                    [svc |-> "kb", question |-> question,
                     search_user_docs |-> search_user_docs,
                     search_policy_docs |-> search_policy_docs,
                     store |-> store, web |-> web, gen |-> gen,
                     uhits |-> uhits, phits |-> phits])
    /\ UNCHANGED <<storeVars, indexerVars, indexerFixed>>

NextInterleave ==
    \/ StartAddUserDocument
    \/ StartForceReload
    \/ ReloadDelete
    \/ ReloadCreate
    \/ IndexerUpsert
    \/ IndexerReturn
    \/ QueryDuringIndexing
    \/ Respond
SpecInterleave == InitIdle /\ [][NextInterleave]_vars

\* the step is a query
Querying == Idle /\ ~Idle'

\* every hit of the bundle is a chunk the stores hold
HitsStored ==
    \A i \in 1..Len(context_docs) : context_docs[i] \in user_collection \cup policy_collection

\* C25: a query that runs while an indexing call is in progress does not end
\* with an error because of it, and the hits of its bundle are chunks that
\* were stored when the collections were queried.
C25_QueryDuringIndexing ==
    [][(Querying /\ indexer.pc # "idle") => (route' # "error" /\ HitsStored')]_vars

\* the same for queries that run while add_user_document is upserting
C25_DuringAddUserDocument ==
    [][(Querying /\ indexer.op = "add_user_document")
          => (route' # "error" /\ HitsStored')]_vars

\* a query has run between delete_collection and create_collection
C25_QueriedWhileDeleted ==
    ~Idle /\ policy_deleted /\ req.search_policy_docs

(***************************************************************************)
(* RAGDocumentService.extract_key_value_pairs_with_rag.  The model follows *)
(* the first two of its six queries.                                       *)
(***************************************************************************)
ExtractQueries == << "What are the names mentioned in this document?",
                     "What are the dates mentioned in this document?" >>

extractFixed == <<configVars, user_collection, policy_collection, queryVars, ttsVars,
                  split, last_index, _mortgage_kb, rag_service, app_initialized, handler,
                  prompt_frame, embed_frame, load_frame, getterVars, indexerVars>>

\* extract_key_value_pairs_with_rag(document_text): add_document under the
\* temporary id, then rag_query(query, n_results=1) for each query
ExtractKeyValuePairs ==
    /\ extraction.pc = "idle"
    /\ \E document_text \in {t \in Texts : t.tid = "v2"},
          web \in WebOutcomes, gen \in GenOutcomes :
         LET temp_id == "temp_" \o document_text.tid
             after   == add_document(collection, temp_id, document_text,
                           Len(_split_text(document_text, ChunkSize, ChunkOverlap)) + 1).coll
         IN  \E hits \in [1..Len(ExtractQueries) -> HitSeqs(after, 1)] :
               /\ collection' = after
               /\ extraction' =
                     [pc |-> "done", document_text |-> document_text,
                      temp_id |-> temp_id, before |-> collection,
                      results |-> [i \in 1..Len(ExtractQueries) |->
                                     rag_query(ExtractQueries[i], hits[i], "ok",
                                               web, gen).result]]
    /\ UNCHANGED extractFixed

\* the caller has taken the extracted information
ExtractReturn ==
    /\ extraction.pc = "done"
    /\ extraction' = NoExtraction
    /\ UNCHANGED <<collection, extractFixed>>

NextExtract == AddDocument \/ ExtractKeyValuePairs \/ ExtractReturn
SpecExtract == InitIdle /\ [][NextExtract]_vars

Extracted == extraction.pc = "done"

\* C27: after extract_key_value_pairs_with_rag has returned, the collection
\* holds no chunk of the temporary document and as many chunks as before.
C27_TemporaryDocument ==
    Extracted =>
        /\ \A c \in collection : c.meta.document_id # extraction.temp_id
        /\ count(collection) = count(extraction.before)

\* an extraction of a text of two chunks has returned
C27_ExtractedTwoChunks ==
    Extracted /\ Len(_split_text(extraction.document_text, ChunkSize, ChunkOverlap)) = 2

\* C28: every chunk that an extraction query retrieved and answered from is a
\* chunk of the document that was supplied, whatever else the collection holds.
C28_OwnChunksOnly ==
    Extracted =>
        \A i \in 1..Len(extraction.results) :
            \A j \in 1..Len(extraction.results[i].sources) :
                extraction.results[i].sources[j][1] = extraction.document_text.tid

\* an extraction has run on a collection that already held another document
C28_OtherDocumentPresent ==
    Extracted /\ \E c \in extraction.before : c.meta.document_id = "d1"

FolderLoaded == load_frame.pc = "done"

\* the upserts the loaded folder gives rise to, one per (PDF, page, chunk)
LoadRecs == PolicyRecs(LoadedPages(load_frame.folder, 1), 1)

\* C29: loading a folder into an empty policy collection gives distinct
\* (PDF, page, chunk) triples distinct chunk ids, so that count() afterwards
\* equals chunk_count, the number of upserts that succeeded.
C29_DistinctChunkIds ==
    FolderLoaded =>
        /\ \A i, j \in 1..Len(LoadRecs) : i # j => LoadRecs[i].id # LoadRecs[j].id
        /\ count(load_frame.coll) = load_frame.chunk_count

\* the same for a folder whose PDFs all have different file names
C29_DistinctFileNames ==
    (FolderLoaded /\ load_frame.folder = Folder) => C29_DistinctChunkIds

\* a folder with guide.pdf in two subfolders has been loaded
C29_SharedNameLoaded ==
    FolderLoaded /\ load_frame.folder = FolderSharedName

\* the result says the web search was used
WebSearchReported == "web_search_used" \in DOMAIN result /\ result.web_search_used

\* C26: a result has web_search_used = true only if the web search was called
\* for that query and returned a non-empty snippet that went into the
\* Generator's context.
C26_WebSearchUsed ==
    (Answered /\ WebSearchReported) => (SnippetsReturned /\ Generated("web"))

\* the same for kb.query alone
C26_WebSearchUsedInQuery ==
    req.svc = "kb" => C26_WebSearchUsed

\* rag_query took its web-enhanced branch with the Generator key missing
C26_RagWithoutKey ==
    Answered /\ req.svc = "rag" /\ route = "web" /\ ~GEMINI_API_KEY

\* caller c's call of text_to_speech has ended with None
ReturnedNone(c) == Finished(c) /\ tts[c].ret = NoBytes

\* C30: when text_to_speech returns None, no cache entry exists for its key
\* afterwards, so the next call with that text and voice asks the producer
\* again.
C30_FailureLeavesNoEntry ==
    \A c \in Callers :
        ReturnedNone(c) => ~exists(cache_file(tts[c].text, tts[c].voice_id))

\* the same for the calls whose producer raised (nothing was synthesized)
C30_ProducerRaised ==
    \A c \in Callers :
        (ReturnedNone(c) /\ tts[c].audio_bytes = <<>>)
            => ~exists(cache_file(tts[c].text, tts[c].voice_id))

\* a call whose payload was synthesized has returned None
C30_PersistFailed ==
    \E c \in Callers : ReturnedNone(c) /\ tts[c].audio_bytes # <<>>

====
